---- MODULE Spec2Model ----
(***************************************************************************)
(* aina-gateway: the access-control gate in front of the MCP handler.      *)
(*                                                                         *)
(* Two Starlette middlewares wrap the FastMCP app (src/src/server.py):     *)
(*   IPWhitelistMiddleware  (the "Origin Filter",   src/src/auth.py)       *)
(*   BearerTokenMiddleware  (the "Credential Gate", src/src/auth.py)       *)
(*                                                                         *)
(* Strings are TLC strings; a character is a string of length one.         *)
(* Addresses are kept as tuples of octets (IPv4) or hextets (IPv6), since  *)
(* a 32- or 128-bit address does not fit a TLC integer.                    *)
(***************************************************************************)
EXTENDS Integers, Sequences, FiniteSets, TLC

(***************************************************************************)
(* Python str primitives used by auth.py and config.py.                    *)
(***************************************************************************)

\* s[i] of a Python str, counted from 1.
Chr(s, i) == SubSeq(s, i, i)

\* s[i:] counted from 1.
From(s, i) == SubSeq(s, i, Len(s))

\* Characters str.strip() removes among those a header or env value carries.
Whitespace == {" ", "\t"}

RECURSIVE lstrip(_)
lstrip(s) ==
    IF Len(s) > 0 /\ Chr(s, 1) \in Whitespace THEN lstrip(From(s, 2)) ELSE s

RECURSIVE rstrip(_)
rstrip(s) ==
    IF Len(s) > 0 /\ Chr(s, Len(s)) \in Whitespace
    THEN rstrip(SubSeq(s, 1, Len(s) - 1))
    ELSE s

\* str.strip()
strip(s) == rstrip(lstrip(s))

\* Index of the first occurrence of character c in s, 0 when there is none.
RECURSIVE FindFrom(_, _, _)
FindFrom(s, c, i) ==
    IF i > Len(s) THEN 0
    ELSE IF Chr(s, i) = c THEN i
    ELSE FindFrom(s, c, i + 1)

find(s, c) == FindFrom(s, c, 1)

\* str.split(c) for a one-character separator: a non-empty tuple of strings.
RECURSIVE split(_, _)
split(s, c) ==
    LET i == find(s, c)
    IN  IF i = 0 THEN <<s>>
        ELSE <<SubSeq(s, 1, i - 1)>> \o split(From(s, i + 1), c)

\* str.startswith(p)
startswith(s, p) == Len(s) >= Len(p) /\ SubSeq(s, 1, Len(p)) = p

\* str.removeprefix(p): one leading copy of p is removed, no more.
removeprefix(s, p) == IF startswith(s, p) THEN From(s, Len(p) + 1) ELSE s

\* bool(s) of a str
truthy(s) == Len(s) > 0

(***************************************************************************)
(* The ipaddress module as auth.py uses it: ip_address(str) at line 113,   *)
(* ip_network(str, strict=False) at line 64, and `addr in network` at      *)
(* line 116.                                                               *)
(***************************************************************************)

Digits == {"0", "1", "2", "3", "4", "5", "6", "7", "8", "9"}

HexDigits ==
    Digits \cup {"a", "b", "c", "d", "e", "f", "A", "B", "C", "D", "E", "F"}

HexVal(c) ==
    CASE c = "0" -> 0 [] c = "1" -> 1 [] c = "2" -> 2 [] c = "3" -> 3
      [] c = "4" -> 4 [] c = "5" -> 5 [] c = "6" -> 6 [] c = "7" -> 7
      [] c = "8" -> 8 [] c = "9" -> 9
      [] c \in {"a", "A"} -> 10 [] c \in {"b", "B"} -> 11
      [] c \in {"c", "C"} -> 12 [] c \in {"d", "D"} -> 13
      [] c \in {"e", "E"} -> 14 [] c \in {"f", "F"} -> 15

\* Every character of s is in the set S (true of the empty string).
AllIn(s, S) == \A i \in 1..Len(s) : Chr(s, i) \in S

\* int(s, base) of a string of digits of that base.
RECURSIVE int(_, _)
int(s, base) ==
    IF Len(s) = 0 THEN 0
    ELSE int(SubSeq(s, 1, Len(s) - 1), base) * base + HexVal(Chr(s, Len(s)))

\* The value a failed parse stands for (ValueError in the code).
NoAddress == [ok |-> FALSE, version |-> 0, parts |-> <<>>]

NoNetwork == [ok |-> FALSE, version |-> 0, parts |-> <<>>, prefixlen |-> 0]

\* IPv4Address._parse_octet accepts s: one to three ASCII digits, no leading
\* zero, at most 255.
OctetOK(s) ==
    /\ Len(s) \in 1..3
    /\ AllIn(s, Digits)
    /\ ~(s # "0" /\ Chr(s, 1) = "0")
    /\ int(s, 10) <= 255

\* IPv4Address(s): exactly four octets separated by dots.
IPv4Address(s) ==
    LET octets == split(s, ".")
    IN  IF Len(octets) = 4 /\ \A i \in 1..4 : OctetOK(octets[i])
        THEN [ok |-> TRUE, version |-> 4,
              parts |-> [i \in 1..4 |-> int(octets[i], 10)]]
        ELSE NoAddress

\* IPv6Address._parse_hextet accepts s: one to four hexadecimal digits.
HextetOK(s) == Len(s) \in 1..4 /\ AllIn(s, HexDigits)

\* One colon-separated field of an IPv6 literal.
Hextet(s) ==
    [empty |-> Len(s) = 0, ok |-> HextetOK(s),
     val |-> IF HextetOK(s) THEN int(s, 16) ELSE 0]

\* A hextet that was not read from text (half of an IPv4-style suffix).
HextetVal(v) == [empty |-> FALSE, ok |-> TRUE, val |-> v]

\* IPv6Address._ip_int_from_string, last part: the fields p with hi leading
\* and lo trailing hextets around `skipped` zero hextets.
IPv6Assemble(p, hi, skipped, lo) ==
    IF /\ \A i \in 1..hi : p[i].ok
       /\ \A i \in 1..lo : p[Len(p) - lo + i].ok
    THEN [ok |-> TRUE, version |-> 6,
          parts |-> [i \in 1..hi |-> p[i].val]
                    \o [i \in 1..skipped |-> 0]
                    \o [i \in 1..lo |-> p[Len(p) - lo + i].val]]
    ELSE NoAddress

\* ... with a '::' at field k: an empty first (last) field must belong to it.
IPv6Elided(p, k, hi, lo) ==
    IF \/ (p[1].empty /\ hi # 0)
       \/ (p[Len(p)].empty /\ lo # 0)
       \/ 8 - (hi + lo) < 1
    THEN NoAddress
    ELSE IPv6Assemble(p, hi, 8 - (hi + lo), lo)

\* ... given the inner empty fields: at most one '::'; without one, exactly
\* eight non-empty fields.
IPv6Skips(p, skips) ==
    IF Cardinality(skips) > 1 THEN NoAddress
    ELSE IF skips # {}
    THEN LET k == CHOOSE i \in skips : TRUE
         IN  IPv6Elided(p, k,
                        IF p[1].empty THEN k - 2 ELSE k - 1,
                        IF p[Len(p)].empty THEN Len(p) - k - 1 ELSE Len(p) - k)
    ELSE IF Len(p) # 8 \/ p[1].empty \/ p[8].empty THEN NoAddress
    ELSE IPv6Assemble(p, 8, 0, 0)

\* ... given the fields: no more than eight colons.
IPv6Fields(p) ==
    IF Len(p) > 9 THEN NoAddress
    ELSE IPv6Skips(p, {i \in 2..(Len(p) - 1) : p[i].empty})

\* ... given the colon-separated texts and the last one read as IPv4: an
\* IPv4-style suffix becomes two hextets.
IPv6Suffix(raw, v4) ==
    IF find(raw[Len(raw)], ".") = 0
    THEN IPv6Fields([i \in 1..Len(raw) |-> Hextet(raw[i])])
    ELSE IF ~v4.ok THEN NoAddress
    ELSE IPv6Fields([i \in 1..(Len(raw) - 1) |-> Hextet(raw[i])]
                    \o <<HextetVal(v4.parts[1] * 256 + v4.parts[2]),
                         HextetVal(v4.parts[3] * 256 + v4.parts[4])>>)

\* ... given the colon-separated texts: at least three of them.
IPv6Texts(raw) ==
    IF Len(raw) < 3 THEN NoAddress
    ELSE IPv6Suffix(raw, IPv4Address(raw[Len(raw)]))

\* IPv6Address._ip_int_from_string(s): the eight hextets of s, or NoAddress.
IPv6Hextets(s) == IF Len(s) = 0 THEN NoAddress ELSE IPv6Texts(split(s, ":"))

\* IPv6Address(s) given the place of its first '%': an optional scope, not
\* empty and without a second '%', which takes no part in `addr in network`.
IPv6Scoped(s, pc) ==
    IF pc = 0 THEN IPv6Hextets(s)
    ELSE IF pc = Len(s) \/ find(From(s, pc + 1), "%") # 0 THEN NoAddress
    ELSE IPv6Hextets(SubSeq(s, 1, pc - 1))

\* IPv6Address(s): no '/', an optional %scope, and eight hextets.
IPv6Address(s) ==
    IF find(s, "/") # 0 THEN NoAddress ELSE IPv6Scoped(s, find(s, "%"))

\* v4 when it parsed, else s read as IPv6.
OrIPv6(v4, s) == IF v4.ok THEN v4 ELSE IPv6Address(s)

\* ipaddress.ip_address(s): IPv4 first, then IPv6, else ValueError (NoAddress).
ip_address(s) == OrIPv6(IPv4Address(s), s)

\* Bits of hextet/octet number i (width w) that a prefix of length p covers.
KeepBits(p, w, i) ==
    IF p >= w * i THEN w
    ELSE IF p <= w * (i - 1) THEN 0
    ELSE p - w * (i - 1)

\* parts & netmask(p), part by part.
Masked(parts, w, p) ==
    [i \in 1..Len(parts) |->
        LET drop == 2 ^ (w - KeepBits(p, w, i))
        IN  (parts[i] \div drop) * drop]

PartWidth(version) == IF version = 4 THEN 8 ELSE 16

MaxPrefixLen(version) == IF version = 4 THEN 32 ELSE 128

\* s without its leading zeros (int() ignores them).
RECURSIVE lstripZeros(_)
lstripZeros(s) ==
    IF Len(s) > 1 /\ Chr(s, 1) = "0" THEN lstripZeros(From(s, 2)) ELSE s

\* _prefix_from_prefix_string accepts s for a family: ASCII digits, in range.
\* (The dotted netmask and hostmask notations of ip_network are not modelled;
\* no CIDR of the program or of the inputs uses them.)
PrefixOK(s, version) ==
    /\ Len(s) >= 1
    /\ AllIn(s, Digits)
    /\ Len(lstripZeros(s)) <= 3
    /\ int(lstripZeros(s), 10) <= MaxPrefixLen(version)

\* The network of a parsed address and a prefix length: the host bits are
\* masked off (strict=False) rather than rejected.
MaskedNetwork(addr, plen) ==
    [ok |-> TRUE, version |-> addr.version,
     parts |-> Masked(addr.parts, PartWidth(addr.version), plen),
     prefixlen |-> plen]

\* IPv4Network / IPv6Network over a parsed address and the '/'-separated
\* fields of the text: without a prefix the network is the single address.
NetworkOf(addr, fields) ==
    IF ~addr.ok THEN NoNetwork
    ELSE IF Len(fields) = 1
    THEN MaskedNetwork(addr, MaxPrefixLen(addr.version))
    ELSE IF ~PrefixOK(fields[2], addr.version) THEN NoNetwork
    ELSE MaskedNetwork(addr, int(lstripZeros(fields[2]), 10))

\* v4 when it parsed, else the fields read as an IPv6 network.
OrIPv6Network(v4, fields) ==
    IF v4.ok THEN v4 ELSE NetworkOf(IPv6Address(fields[1]), fields)

\* ip_network given the '/'-separated fields: at most one '/'.
NetworkFields(fields) ==
    IF Len(fields) > 2 THEN NoNetwork
    ELSE OrIPv6Network(NetworkOf(IPv4Address(fields[1]), fields), fields)

\* ipaddress.ip_network(s, strict=False): IPv4 first, then IPv6, else
\* ValueError (NoNetwork).
ip_network(s) == NetworkFields(split(s, "/"))

\* `addr in network`: same family, and addr & netmask = network address.
NetContains(network, addr) ==
    /\ addr.version = network.version
    /\ Masked(addr.parts, PartWidth(network.version), network.prefixlen)
         = network.parts

(***************************************************************************)
(* src/src/auth.py: the range lists and the helpers.                       *)
(***************************************************************************)

ANTHROPIC_CIDRS ==
    <<"160.79.104.0/21",
      "34.162.46.92/32",
      "34.162.102.82/32",
      "34.162.136.91/32",
      "34.162.142.92/32",
      "34.162.183.95/32">>

LOOPBACK_CIDRS == <<"127.0.0.0/8", "::1/128">>

LAN_CIDRS == <<"10.0.0.0/8", "172.16.0.0/12", "192.168.0.0/16">>

\* An absent header, an unset environment variable, request.client = None.
None == [present |-> FALSE, value |-> ""]

Some(v) == [present |-> TRUE, value |-> v]

\* os.getenv(name, default) / headers.get(name, default)
get(opt, default) == IF opt.present THEN opt.value ELSE default

\* nets.append(network), or nothing when ip_network raised ValueError (the
\* CIDR is logged and skipped).
Appended(network) == IF network.ok THEN <<network>> ELSE <<>>

\* _parse_networks with its try around the whole loop: the first CIDR that
\* fails to parse ends the list.
RECURSIVE _parse_networks_stop_at_invalid(_)
_parse_networks_stop_at_invalid(cidrs) ==
    IF Len(cidrs) = 0 THEN <<>>
    ELSE IF ~ip_network(Head(cidrs)).ok THEN <<>>
    ELSE Appended(ip_network(Head(cidrs)))
             \o _parse_networks_stop_at_invalid(Tail(cidrs))

\* logger.warning(f"Invalid CIDR '{cidr}': {e}"): the CIDR logged, or nothing
\* when ip_network returned.
Warning(cidr, network) == IF network.ok THEN <<>> ELSE <<cidr>>

\* The CIDRs that one call _parse_networks(cidrs) logs a warning for, in order.
RECURSIVE Warned(_)
Warned(cidrs) ==
    IF Len(cidrs) = 0 THEN <<>>
    ELSE Warning(Head(cidrs), ip_network(Head(cidrs))) \o Warned(Tail(cidrs))

\* _parse_networks(cidrs): the networks of the CIDRs that parse, in order.
RECURSIVE _parse_networks(_)
_parse_networks(cidrs) ==
    IF Len(cidrs) = 0 THEN <<>>
    ELSE Appended(ip_network(Head(cidrs))) \o _parse_networks(Tail(cidrs))

\* [c.strip() for c in extra.split(",") if c.strip()]
StrippedEntries(extra) ==
    LET fields == split(extra, ",")
        RECURSIVE keep(_)
        keep(i) ==
            IF i > Len(fields) THEN <<>>
            ELSE IF truthy(strip(fields[i]))
                 THEN <<strip(fields[i])>> \o keep(i + 1)
                 ELSE keep(i + 1)
    IN  keep(1)

\* The list objects _build_whitelist can reach, by the name that holds them:
\* the module's three lists as their literals leave them, and the list that
\* the `+` of line 82 allocates (empty until then).
ModuleLists ==
    [ANTHROPIC_CIDRS |-> ANTHROPIC_CIDRS, LOOPBACK_CIDRS |-> LOOPBACK_CIDRS,
     LAN_CIDRS |-> LAN_CIDRS, new |-> <<>>]

\* `cidrs = ANTHROPIC_CIDRS` followed by `cidrs += LOOPBACK_CIDRS + LAN_CIDRS`:
\* cidrs names the module's own list, which grows in place.
ListAdd_in_place(objects) ==
    [objects |->
        [objects EXCEPT
            !.ANTHROPIC_CIDRS = @ \o objects.LOOPBACK_CIDRS \o objects.LAN_CIDRS],
     cidrs |-> "ANTHROPIC_CIDRS"]

\* cidrs = ANTHROPIC_CIDRS + LOOPBACK_CIDRS + LAN_CIDRS: list.__add__ builds a
\* new list and the local name cidrs is bound to it.
ListAdd(objects) ==
    [objects |->
        [objects EXCEPT
            !.new = objects.ANTHROPIC_CIDRS \o objects.LOOPBACK_CIDRS
                        \o objects.LAN_CIDRS],
     cidrs |-> "new"]

\* cidrs += items: list.__iadd__ extends, in place, the list cidrs names.
ListIAdd(frame, items) ==
    [frame EXCEPT !.objects[frame.cidrs] = @ \o items]

\* The lists and the binding of cidrs when _build_whitelist reaches its
\* return, under the environment env.
BuildWhitelistFrame(objects, env) ==
    IF truthy(strip(get(env.ALLOWED_IPS, "")))
    THEN ListIAdd(ListAdd(objects),
                  StrippedEntries(strip(get(env.ALLOWED_IPS, ""))))
    ELSE ListAdd(objects)

\* return _parse_networks(cidrs)
ParsedCidrs(frame) == _parse_networks(frame.objects[frame.cidrs])

\* _build_whitelist() under the environment env.
_build_whitelist(env) == ParsedCidrs(BuildWhitelistFrame(ModuleLists, env))

\* The CIDRs one call _build_whitelist() logs a warning for.
WarnedByBuild(env) ==
    Warned(BuildWhitelistFrame(ModuleLists, env).objects[
               BuildWhitelistFrame(ModuleLists, env).cidrs])

\* The warnings of the process's start: lines 71 and 72 at import, then
\* _build_whitelist when an IPWhitelistMiddleware is built enabled.
WarningsAtStart(enabled, env) ==
    Warned(ANTHROPIC_CIDRS) \o Warned(LOOPBACK_CIDRS)
        \o (IF enabled THEN WarnedByBuild(env) ELSE <<>>)

\* The module's three lists once the process has started: as the literals left
\* them when no IPWhitelistMiddleware built a whitelist, else as
\* _build_whitelist left them.
ListsAfterStart(enabled, env) ==
    IF enabled THEN BuildWhitelistFrame(ModuleLists, env).objects
    ELSE ModuleLists

\* _get_client_ip reading X-Forwarded-For before CF-Connecting-IP.
_get_client_ip_xff_first(request) ==
    LET cf_ip == request.headers.cf_connecting_ip
        xff == request.headers.x_forwarded_for
    IN  IF xff.present /\ truthy(xff.value)
        THEN strip(split(xff.value, ",")[1])
        ELSE IF cf_ip.present /\ truthy(cf_ip.value) THEN strip(cf_ip.value)
        ELSE IF request.client.present THEN request.client.value
        ELSE "0.0.0.0"

\* _get_client_ip(request)
_get_client_ip(request) ==
    LET cf_ip == request.headers.cf_connecting_ip
        xff == request.headers.x_forwarded_for
    IN  IF cf_ip.present /\ truthy(cf_ip.value) THEN strip(cf_ip.value)
        ELSE IF xff.present /\ truthy(xff.value)
             THEN strip(split(xff.value, ",")[1])
        ELSE IF request.client.present THEN request.client.value
        ELSE "0.0.0.0"

\* _ip_in_networks with all() in place of any().
AnyContains_all(addr, networks) ==
    IF ~addr.ok THEN FALSE
    ELSE \A i \in 1..Len(networks) : NetContains(networks[i], addr)

\* _ip_in_networks answering True when ip_address raised ValueError.
AnyContains_fail_open(addr, networks) ==
    IF ~addr.ok THEN TRUE
    ELSE \E i \in 1..Len(networks) : NetContains(networks[i], addr)

\* any(addr in network for network in networks), False when ip_address
\* raised ValueError.
AnyContains(addr, networks) ==
    IF ~addr.ok THEN FALSE
    ELSE \E i \in 1..Len(networks) : NetContains(networks[i], addr)

\* _ip_in_networks(ip_str, networks)
_ip_in_networks(ip_str, networks) == AnyContains(ip_address(ip_str), networks)

(***************************************************************************)
(* More of the Python runtime: str.lower, str.isascii and                  *)
(* secrets.compare_digest.                                                 *)
(***************************************************************************)

UpperCase == "ABCDEFGHIJKLMNOPQRSTUVWXYZ"

LowerCase == "abcdefghijklmnopqrstuvwxyz"

\* str.lower() on the ASCII letters.
RECURSIVE lower(_)
lower(s) ==
    IF Len(s) = 0 THEN ""
    ELSE LET c == Chr(s, 1)
             i == find(UpperCase, c)
         IN  (IF i = 0 THEN c ELSE Chr(LowerCase, i)) \o lower(From(s, 2))

\* The ASCII characters a header value can carry besides letters and digits
\* (all but the backquote, which no input of the model carries).
AsciiPunctuation ==
    {" ", "!", "\"", "#", "$", "%", "&", "'", "(", ")", "*", "+", ",", "-",
     ".", "/", ":", ";", "<", "=", ">", "?", "@", "[", "\\", "]", "^", "_",
     "{", "|", "}", "~", "\t"}

\* str.isascii(), character by character.
isascii(s) ==
    \A i \in 1..Len(s) :
        \/ find(UpperCase, Chr(s, i)) # 0
        \/ find(LowerCase, Chr(s, i)) # 0
        \/ Chr(s, i) \in Digits
        \/ Chr(s, i) \in AsciiPunctuation

\* secrets.compare_digest(a, b) on two str: TypeError("comparing strings with
\* non-ASCII characters is not supported") unless both are ASCII, else a == b.
compare_digest(a, b) ==
    IF isascii(a) /\ isascii(b)
    THEN [raises |-> FALSE, result |-> a = b]
    ELSE [raises |-> TRUE, result |-> FALSE]

(***************************************************************************)
(* src/src/config.py                                                       *)
(***************************************************************************)

\* API_KEY = os.getenv("API_KEY", "")
API_KEY(env) == get(env.API_KEY, "")

\* IP_WHITELIST_ENABLED without its .lower().
IP_WHITELIST_ENABLED_case_sensitive(env) ==
    get(env.IP_WHITELIST_ENABLED, "true") \in {"true", "1", "yes"}

\* IP_WHITELIST_ENABLED = os.getenv(..., "true").lower() in ("true", "1", "yes")
IP_WHITELIST_ENABLED(env) ==
    lower(get(env.IP_WHITELIST_ENABLED, "true")) \in {"true", "1", "yes"}

(***************************************************************************)
(* What a dispatch ends in: `return await call_next(request)`, a returned  *)
(* JSONResponse, or an exception that leaves dispatch.                     *)
(***************************************************************************)

CallNext ==
    [kind |-> "call_next", status_code |-> 0, content |-> <<>>, headers |-> {}]

\* JSONResponse(content, status_code=..., headers=...); content {"k": "v"} is
\* the tuple <<"k", "v">>, headers a set of <<name, value>>.
JSONResponse(content, status_code, headers) ==
    [kind |-> "response", status_code |-> status_code, content |-> content,
     headers |-> headers]

Raised(exception) ==
    [kind |-> "raise", status_code |-> 0, content |-> <<exception>>,
     headers |-> {}]

\* The slot holds no finished stage yet.
Pending ==
    [kind |-> "pending", status_code |-> 0, content |-> <<>>, headers |-> {}]

\* What the FastMCP app answers once a request reaches it.
Handled ==
    [kind |-> "handled", status_code |-> 200, content |-> <<>>, headers |-> {}]

(***************************************************************************)
(* src/src/auth.py: class IPWhitelistMiddleware                            *)
(***************************************************************************)

\* IPWhitelistMiddleware.__init__(app, enabled)
IPWhitelistMiddleware(enabled, env) ==
    [enabled |-> enabled,
     whitelist |-> IF enabled THEN _build_whitelist(env) ELSE <<>>]

\* IPWhitelistMiddleware._is_allowed(ip_str)
_is_allowed(self, ip_str) == _ip_in_networks(ip_str, self.whitelist)

\* The denial without its status_code argument (JSONResponse defaults to 200).
AccessDenied_default_status == JSONResponse(<<"error", "Access denied">>, 200, {})

\* JSONResponse({"error": "Access denied"}, status_code=403)
AccessDenied == JSONResponse(<<"error", "Access denied">>, 403, {})

\* dispatch without its `if not self.enabled` shortcut.
IPWhitelist_dispatch_no_shortcut(self, request) ==
    IF ~_is_allowed(self, _get_client_ip(request)) THEN AccessDenied
    ELSE CallNext

\* IPWhitelistMiddleware.dispatch(request, call_next), up to its return.
IPWhitelist_dispatch(self, request) ==
    IF ~self.enabled THEN CallNext
    ELSE IF ~_is_allowed(self, _get_client_ip(request)) THEN AccessDenied
    ELSE CallNext

(***************************************************************************)
(* src/src/auth.py: class BearerTokenMiddleware                            *)
(***************************************************************************)

\* __init__ with auth_enabled = (api_key is not None).
BearerTokenMiddleware_always_enabled(api_key) ==
    [api_key |-> api_key, auth_enabled |-> TRUE]

\* BearerTokenMiddleware.__init__(app, api_key)
BearerTokenMiddleware(api_key) ==
    [api_key |-> api_key, auth_enabled |-> truthy(api_key)]

\* _is_auth_exempt without its loopback test.
ExemptAddress_no_loopback(client_ip, anthropic_networks, loopback_networks) ==
    IF _ip_in_networks(client_ip, anthropic_networks) THEN TRUE ELSE FALSE

\* _is_auth_exempt past its first line, client_ip being known.
ExemptAddress(client_ip, anthropic_networks, loopback_networks) ==
    IF _ip_in_networks(client_ip, anthropic_networks) THEN TRUE
    ELSE IF _ip_in_networks(client_ip, loopback_networks) THEN TRUE
    ELSE FALSE

\* BearerTokenMiddleware._is_auth_exempt(request), given the module's
\* ANTHROPIC_NETWORKS and LOOPBACK_NETWORKS.
\* An exemption that private networks enjoy as well.
_is_auth_exempt_private_too(request, anthropic_networks, loopback_networks) ==
    \/ ExemptAddress(_get_client_ip(request), anthropic_networks,
                     loopback_networks)
    \/ AnyContains(ip_address(_get_client_ip(request)),
                   _parse_networks(LAN_CIDRS))

_is_auth_exempt(request, anthropic_networks, loopback_networks) ==
    ExemptAddress(_get_client_ip(request), anthropic_networks,
                  loopback_networks)

\* The 401 response without its headers argument.
MissingAuthorization_no_challenge ==
    JSONResponse(<<"error", "Missing or invalid Authorization header">>, 401,
                 {})

\* JSONResponse({"error": "Missing or invalid Authorization header"},
\*              status_code=401, headers={"WWW-Authenticate": "Bearer"})
MissingAuthorization ==
    JSONResponse(<<"error", "Missing or invalid Authorization header">>, 401,
                 {<<"WWW-Authenticate", "Bearer">>})

\* JSONResponse({"error": "Invalid API key"}, status_code=403)
InvalidAPIKey == JSONResponse(<<"error", "Invalid API key">>, 403, {})

\* auth_header.removeprefix("Bearer ")
TokenOf(auth_header) == removeprefix(auth_header, "Bearer ")

\* BearerTokenMiddleware.dispatch(request, call_next), up to its return.
\* A gate that asks for the header before it looks at the origin.
BearerToken_dispatch_header_first(self, request, anthropic_networks, loopback_networks) ==
    IF ~self.auth_enabled THEN CallNext
    ELSE IF ~startswith(get(request.headers.authorization, ""), "Bearer ")
         THEN MissingAuthorization
    ELSE IF _is_auth_exempt(request, anthropic_networks, loopback_networks)
         THEN CallNext
    ELSE IF compare_digest(TokenOf(get(request.headers.authorization, "")),
                           self.api_key).raises
         THEN Raised("TypeError")
    ELSE IF ~compare_digest(TokenOf(get(request.headers.authorization, "")),
                            self.api_key).result
         THEN InvalidAPIKey
    ELSE CallNext

BearerToken_dispatch(self, request, anthropic_networks, loopback_networks) ==
    LET auth_header == get(request.headers.authorization, "")
        token == TokenOf(auth_header)
    IN  IF ~self.auth_enabled THEN CallNext
        ELSE IF _is_auth_exempt(request, anthropic_networks, loopback_networks)
             THEN CallNext
        ELSE IF ~startswith(auth_header, "Bearer ") THEN MissingAuthorization
        ELSE IF compare_digest(token, self.api_key).raises
             THEN Raised("TypeError")
        ELSE IF ~compare_digest(token, self.api_key).result THEN InvalidAPIKey
        ELSE CallNext

(***************************************************************************)
(* src/src/server.py: create_app and the middleware stack.                 *)
(***************************************************************************)

\* Starlette's app.add_middleware(cls, **options): the new entry goes to the
\* front of app.user_middleware, so the middleware added last runs first.
add_middleware(user_middleware, cls, options) ==
    <<[cls |-> cls, options |-> options]>> \o user_middleware

\* create_app with the two add_middleware calls in the other order.
create_app_ip_added_first(env) ==
    add_middleware(
        add_middleware(<<>>, "IPWhitelistMiddleware",
                       [enabled |-> IP_WHITELIST_ENABLED(env)]),
        "BearerTokenMiddleware", [api_key |-> API_KEY(env)])

\* create_app(): app.user_middleware after the two add_middleware calls.
create_app(env) ==
    LET app0 == <<>>
        app1 == add_middleware(app0, "BearerTokenMiddleware",
                               [api_key |-> API_KEY(env)])
        app2 == add_middleware(app1, "IPWhitelistMiddleware",
                               [enabled |-> IP_WHITELIST_ENABLED(env)])
    IN  app2

\* The options the app was given for middleware class cls.
OptionsOf(user_middleware, cls) ==
    LET i == CHOOSE j \in 1..Len(user_middleware) : user_middleware[j].cls = cls
    IN  user_middleware[i].options

(***************************************************************************)
(* src/src/tools.py: the five Pixeltable tables and their update tools.    *)
(* A table is the sequence of its rows in insertion order; a row is a      *)
(* function from column names to values; a tool's answer is the dict that  *)
(* it hands to json.dumps.                                                 *)
(***************************************************************************)

TableNames ==
    {"memory.memories", "memory.bookmarks", "memory.chats", "memory.projects",
     "memory.documents"}

\* The columns of each table: the keys of `entry` in its _do_*_add.
Columns(table_name) ==
    CASE table_name = "memory.memories" ->
           {"row_id", "content", "memory_type", "projects", "tags", "source",
            "created_at", "updated_at"}
      [] table_name = "memory.bookmarks" ->
           {"row_id", "url", "title", "description", "bookmark_type",
            "projects", "tags", "source", "language", "created_at",
            "updated_at"}
      [] table_name = "memory.chats" ->
           {"row_id", "chat_id", "chat_title", "project_slug", "active",
            "source", "created_at", "updated_at"}
      [] table_name = "memory.projects" ->
           {"row_id", "name", "slug", "description", "status", "category",
            "priority", "paths", "technologies", "tags", "related_projects",
            "next_steps", "notes", "claude_project_id", "created_at",
            "updated_at"}
      [] table_name = "memory.documents" ->
           {"row_id", "path", "title", "description", "doc_type", "projects",
            "tags", "source", "created_at", "updated_at"}

\* The columns that hold a list.
ListColumns == {"projects", "tags", "paths", "technologies", "related_projects"}

\* The Optional parameters of each _do_*_update besides row_id.
UpdateParams(table_name) ==
    CASE table_name = "memory.memories" ->
           {"content", "memory_type", "projects", "tags"}
      [] table_name = "memory.bookmarks" ->
           {"url", "title", "description", "bookmark_type", "projects", "tags"}
      [] table_name = "memory.chats" ->
           {"chat_title", "project_slug", "active"}
      [] table_name = "memory.projects" ->
           {"name", "description", "status", "category", "priority", "paths",
            "technologies", "tags", "related_projects", "next_steps", "notes"}
      [] table_name = "memory.documents" ->
           {"path", "title", "description", "doc_type", "projects", "tags"}

\* The word each table's "No ... found" message uses.
Noun(table_name) ==
    CASE table_name = "memory.memories" -> "memory"
      [] table_name = "memory.bookmarks" -> "bookmark"
      [] table_name = "memory.chats" -> "chat"
      [] table_name = "memory.projects" -> "project"
      [] table_name = "memory.documents" -> "document"

\* Two decimal digits for n < 100, as %S prints them.
TwoDigits(n) ==
    Chr("0123456789", (n \div 10) + 1) \o Chr("0123456789", (n % 10) + 1)

\* _now_iso(): strftime("%Y-%m-%dT%H:%M:%SZ") of the UTC time, the clock
\* reading `clock` whole seconds past 2026-01-01T00:00:00Z (under a minute).
_now_iso(clock) == "2026-01-01T00:00:" \o TwoDigits(clock) \o "Z"

\* `if name is not None: updates[name] = name`, for the parameter `name`.
SetIfGiven(updates, name, args) ==
    IF args[name].present THEN (name :> args[name].value) @@ updates
    ELSE updates

\* The dict `updates` of _do_memory_update.
memory_updates(now, args) ==
    SetIfGiven(SetIfGiven(SetIfGiven(SetIfGiven(
        [updated_at |-> now],
        "content", args), "memory_type", args), "projects", args), "tags", args)

\* The dict `updates` of _do_bookmark_update.
bookmark_updates(now, args) ==
    SetIfGiven(SetIfGiven(SetIfGiven(SetIfGiven(SetIfGiven(SetIfGiven(
        [updated_at |-> now],
        "url", args), "title", args), "description", args),
        "bookmark_type", args), "projects", args), "tags", args)

\* The dict `updates` of _do_chat_update.
chat_updates(now, args) ==
    SetIfGiven(SetIfGiven(SetIfGiven(
        [updated_at |-> now],
        "chat_title", args), "project_slug", args), "active", args)

\* The dict `updates` of _do_project_update.
project_updates(now, args) ==
    SetIfGiven(SetIfGiven(SetIfGiven(SetIfGiven(SetIfGiven(SetIfGiven(
    SetIfGiven(SetIfGiven(SetIfGiven(SetIfGiven(SetIfGiven(
        [updated_at |-> now],
        "name", args), "description", args), "status", args),
        "category", args), "priority", args), "paths", args),
        "technologies", args), "tags", args), "related_projects", args),
        "next_steps", args), "notes", args)

\* The dict `updates` of _do_document_update.
document_updates(now, args) ==
    SetIfGiven(SetIfGiven(SetIfGiven(SetIfGiven(SetIfGiven(SetIfGiven(
        [updated_at |-> now],
        "path", args), "title", args), "description", args),
        "doc_type", args), "projects", args), "tags", args)

\* The dict `updates` of the _do_*_update that works on table_name.
UpdatesOf(table_name, now, args) ==
    CASE table_name = "memory.memories" -> memory_updates(now, args)
      [] table_name = "memory.bookmarks" -> bookmark_updates(now, args)
      [] table_name = "memory.chats" -> chat_updates(now, args)
      [] table_name = "memory.projects" -> project_updates(now, args)
      [] table_name = "memory.documents" -> document_updates(now, args)

\* t.where(t.row_id == row_id).collect()
Collect(rows, row_id) == SelectSeq(rows, LAMBDA row : row.row_id = row_id)

\* A row after an update that also rewrites created_at.
Assigned_resets_created_at(row, updates) ==
    [col \in DOMAIN row |->
        IF col \in DOMAIN updates THEN updates[col]
        ELSE IF col = "created_at" THEN updates.updated_at
        ELSE row[col]]

\* A row after Pixeltable's update: the columns named in `updates` take the
\* given values, the others keep theirs.
Assigned(row, updates) ==
    [col \in DOMAIN row |->
        IF col \in DOMAIN updates THEN updates[col] ELSE row[col]]

\* t.where(t.row_id == row_id).update(updates)
Update(rows, row_id, updates) ==
    [i \in 1..Len(rows) |->
        IF rows[i].row_id = row_id THEN Assigned(rows[i], updates)
        ELSE rows[i]]

\* {"status": "error", "message": f"No {noun} found with row_id: {row_id}"}
NotFound(table_name, row_id) ==
    [status |-> "error",
     message |-> "No " \o Noun(table_name) \o " found with row_id: " \o row_id]

\* {"status": "ok", "updated": _format_rows(updated)[0]}, or the IndexError
\* of indexing an empty list.
UpdatedResult(updated) ==
    IF Len(updated) = 0 THEN [status |-> "raise", exception |-> "IndexError"]
    ELSE [status |-> "ok", updated |-> updated[1]]

\* The column whose start a _do_*_delete reports back.
PreviewColumn(table_name) ==
    CASE table_name = "memory.memories" -> "content"
      [] table_name = "memory.bookmarks" -> "title"
      [] table_name = "memory.chats" -> "chat_title"
      [] table_name = "memory.projects" -> "name"
      [] table_name = "memory.documents" -> "title"

\* The key under which it reports it.
PreviewKey(table_name) ==
    CASE table_name = "memory.memories" -> "content_preview"
      [] table_name = "memory.bookmarks" -> "title_preview"
      [] table_name = "memory.chats" -> "title_preview"
      [] table_name = "memory.projects" -> "name_preview"
      [] table_name = "memory.documents" -> "title_preview"

\* s[:n]
Prefix(s, n) == IF Len(s) <= n THEN s ELSE SubSeq(s, 1, n)

\* matches[0].get(column, "")[:80]
PreviewOf(table_name, matches) ==
    Prefix(matches[1][PreviewColumn(table_name)], 80)

\* A delete that removes only the first row it finds.
Delete_first_match(rows, row_id) ==
    IF \E i \in 1..Len(rows) : rows[i].row_id = row_id
    THEN SubSeq(rows, 1,
                (CHOOSE i \in 1..Len(rows) :
                    /\ rows[i].row_id = row_id
                    /\ \A j \in 1..(i - 1) : rows[j].row_id # row_id) - 1)
         \o SubSeq(rows,
                (CHOOSE i \in 1..Len(rows) :
                    /\ rows[i].row_id = row_id
                    /\ \A j \in 1..(i - 1) : rows[j].row_id # row_id) + 1,
                Len(rows))
    ELSE rows

\* t.where(t.row_id == row_id).delete()
Delete(rows, row_id) == SelectSeq(rows, LAMBDA row : row.row_id # row_id)

\* {"status": "ok", "deleted_row_id": row_id, "<column>_preview": preview}
DeletedResult(table_name, row_id, preview) ==
    ("status" :> "ok") @@ ("deleted_row_id" :> row_id)
        @@ (PreviewKey(table_name) :> preview)

(***************************************************************************)
(* src/src/tools.py: the vault tools. A path is the tuple of its           *)
(* components below "/"; a file system is a function from the paths that   *)
(* exist to what is there: a directory, a file with its text, or a         *)
(* symbolic link with its absolute target.                                 *)
(***************************************************************************)

VAULT_ROOT == <<"Users", "jung", "Documents", "AINAVault">>
PROJECTS_ROOT == <<"Volumes", "AINA">>
ALLOWED_ROOTS == <<VAULT_ROOT, PROJECTS_ROOT>>

\* os.getcwd(): the gateway is started from its checkout.
Cwd == <<"Volumes", "AINA", "aina-gateway">>

MaxSymlinks == 3

\* The text between "/" characters, left to right: `done` holds the finished
\* components, `part` the one being read, from the i-th character on.
RECURSIVE Split(_, _, _, _)
Split(s, i, part, done) ==
    IF i > Len(s) THEN Append(done, part)
    ELSE IF Chr(s, i) = "/" THEN Split(s, i + 1, "", Append(done, part))
    ELSE Split(s, i + 1, part \o Chr(s, i), done)

\* Path(path): PurePosixPath drops empty and "." components and keeps "..".
Parts(path) ==
    SelectSeq(Split(path, 1, "", <<>>), LAMBDA name : name \notin {"", "."})

IsAbsolute(path) == Len(path) > 0 /\ Chr(path, 1) = "/"

\* All of a tuple but its last element; the root is its own parent.
Parent(p) == IF Len(p) = 0 THEN p ELSE SubSeq(p, 1, Len(p) - 1)

\* os.path.realpath, not strict: ".." steps up, a symbolic link is replaced
\* by its target, and what does not exist is kept as written.
RECURSIVE Realpath(_, _, _, _)
Realpath(fs, done, rest, links) ==
    IF Len(rest) = 0 THEN done
    ELSE IF Head(rest) = ".." THEN Realpath(fs, Parent(done), Tail(rest), links)
    ELSE IF /\ Append(done, Head(rest)) \in DOMAIN fs
            /\ fs[Append(done, Head(rest))].kind = "link"
            /\ links > 0
         THEN Realpath(fs, <<>>,
                       fs[Append(done, Head(rest))].target \o Tail(rest),
                       links - 1)
    ELSE Realpath(fs, Append(done, Head(rest)), Tail(rest), links)

\* Path(path).resolve()
Resolve(fs, path) ==
    Realpath(fs, <<>>,
             IF IsAbsolute(path) THEN Parts(path) ELSE Cwd \o Parts(path),
             MaxSymlinks)

\* root == p or root in p.parents
Under(root, p) == Len(root) <= Len(p) /\ SubSeq(p, 1, Len(root)) = root

\* The test of _validate_vault_path on the resolved path.
Allowed(p) == \E i \in 1..Len(ALLOWED_ROOTS) : Under(ALLOWED_ROOTS[i], p)

\* str(p)
RECURSIVE Str(_)
Str(p) ==
    IF Len(p) = 0 THEN "/"
    ELSE IF Len(p) = 1 THEN "/" \o p[1]
    ELSE Str(Parent(p)) \o "/" \o p[Len(p)]

\* The ValueError of _validate_vault_path.
OutsideAllowed(path) ==
    [status |-> "raise", exception |-> "ValueError",
     message |-> "Access denied: " \o path
                    \o " is outside allowed directories."]

IsDir(fs, p) == p \in DOMAIN fs /\ fs[p].kind = "dir"
IsFile(fs, p) == p \in DOMAIN fs /\ fs[p].kind = "file"

\* The answer of _do_vault_read.
vault_read(fs, path) ==
    IF ~Allowed(Resolve(fs, path)) THEN OutsideAllowed(path)
    ELSE IF Resolve(fs, path) \notin DOMAIN fs
         THEN [error |-> "File not found: " \o path]
    ELSE IF ~IsFile(fs, Resolve(fs, path))
         THEN [error |-> "Not a file: " \o path]
    ELSE [path |-> Str(Resolve(fs, path)),
          content |-> fs[Resolve(fs, path)].content]

\* The directories above p, the root first.
Ancestors(p) == {SubSeq(p, 1, k) : k \in 0..(Len(p) - 1)}

\* p.parent.mkdir(parents=True, exist_ok=True) succeeds unless something
\* other than a directory is in the way.
CanMkdirs(fs, p) == \A a \in Ancestors(p) : a \in DOMAIN fs => IsDir(fs, a)

\* The file system after p.parent.mkdir(parents=True, exist_ok=True).
Mkdirs(fs, p) ==
    [q \in DOMAIN fs \union Ancestors(p) |->
        IF q \in DOMAIN fs THEN fs[q] ELSE [kind |-> "dir"]]

\* The file system after p.write_text(content).
WriteText(fs, p, content) ==
    [q \in DOMAIN fs \union {p} |->
        IF q = p THEN [kind |-> "file", content |-> content] ELSE fs[q]]

\* The file system after _do_vault_write.
vault_write_files(fs, path, content) ==
    IF ~Allowed(Resolve(fs, path)) THEN fs
    ELSE IF ~CanMkdirs(fs, Resolve(fs, path)) THEN fs
    ELSE IF IsDir(fs, Resolve(fs, path)) THEN Mkdirs(fs, Resolve(fs, path))
    ELSE WriteText(Mkdirs(fs, Resolve(fs, path)), Resolve(fs, path), content)

\* The answer of _do_vault_write.
vault_write(fs, path, content) ==
    IF ~Allowed(Resolve(fs, path)) THEN OutsideAllowed(path)
    ELSE IF ~CanMkdirs(fs, Resolve(fs, path)) \/ IsDir(fs, Resolve(fs, path))
         THEN [error |-> "Write error"]
    ELSE [status |-> "ok", path |-> Str(Resolve(fs, path)),
          bytes |-> Len(content)]

\* The entries of a directory whose names do not start with ".", each with
\* the type and size that is_dir(), is_file() and stat() report, all three
\* following a symbolic link once.
Entries(fs, p) ==
    {[name |-> q[Len(q)],
      type |-> IF IsDir(fs, Realpath(fs, <<>>, q, MaxSymlinks))
               THEN "dir" ELSE "file",
      size |-> IF IsFile(fs, Realpath(fs, <<>>, q, MaxSymlinks))
               THEN Len(fs[Realpath(fs, <<>>, q, MaxSymlinks)].content)
               ELSE -1] :
     q \in {r \in DOMAIN fs :
               Len(r) = Len(p) + 1 /\ Parent(r) = p /\ Chr(r[Len(r)], 1) # "."}}

\* The answer of _do_vault_list; the entries as a set, size -1 for None.
vault_list(fs, path) ==
    IF ~Allowed(Resolve(fs, path)) THEN OutsideAllowed(path)
    ELSE IF Resolve(fs, path) \notin DOMAIN fs
         THEN [error |-> "Path not found: " \o path]
    ELSE IF ~IsDir(fs, Resolve(fs, path))
         THEN [error |-> "Not a directory: " \o path]
    ELSE [path |-> Str(Resolve(fs, path)),
          entries |-> Entries(fs, Resolve(fs, path))]

\* A machine without the vault and without the projects volume.
BareDisk ==
    [p \in {<<>>, <<"etc">>, <<"tmp">>} |-> [kind |-> "dir"]]
        @@ (<<"etc", "passwd">> :> [kind |-> "file", content |-> "root:x:0"])

\* The machine the roots are written for: the vault with a note and a link
\* that leads out of it, the projects volume with the gateway's checkout, a
\* link into the volume from outside, and a neighbour of the vault.
MacDisk ==
    [p \in {<<>>, <<"etc">>, <<"tmp">>, <<"Users">>, <<"Users", "jung">>,
            <<"Users", "jung", "Documents">>, VAULT_ROOT,
            VAULT_ROOT \o <<"notes">>,
            <<"Users", "jung", "Documents", "AINAVaultX">>,
            <<"Volumes">>, PROJECTS_ROOT, Cwd} |-> [kind |-> "dir"]]
        @@ (<<"etc", "passwd">> :> [kind |-> "file", content |-> "root:x:0"])
        @@ (VAULT_ROOT \o <<"notes", "a.md">>
               :> [kind |-> "file", content |-> "note"])
        @@ (VAULT_ROOT \o <<"out">> :> [kind |-> "link", target |-> <<"etc">>])
        @@ (<<"tmp", "in">> :> [kind |-> "link", target |-> PROJECTS_ROOT])

\* No maintenance script runs.
NoScript == [pc |-> "none"]

\* No file at the path.
NoFile == [exists |-> FALSE]

(***************************************************************************)
(* src/scripts/migrate_add_row_id.py                                       *)
(***************************************************************************)

TABLES ==
    <<"memory.memories", "memory.bookmarks", "memory.chats",
      "memory.projects", "memory.documents">>

\* Pixeltable's NULL in a String column; no row_id that uuid4 yields and no
\* text a tool writes spells it.
NULL == "<NULL>"

\* uuid.uuid4().hex[:16], the n-th one drawn in a run of a script: sixteen
\* hexadecimal digits, a new text at every draw.
NewRowId(n) == "00000000000000" \o TwoDigits(n)

\* The column that each branch of migrate_table pairs with created_at.
KeyColumn(table_name) ==
    CASE table_name = "memory.memories" -> "memory_type"
      [] table_name = "memory.bookmarks" -> "url"
      [] table_name = "memory.chats" -> "chat_id"
      [] table_name = "memory.projects" -> "slug"
      [] table_name = "memory.documents" -> "path"

\* t.add_column(row_id=pxt.String): every row gets the column, holding NULL.
AddColumn(rows) == [i \in 1..Len(rows) |-> ("row_id" :> NULL) @@ rows[i]]

\* A selection that takes every row.
NeedsBackfill_every_row(rows) == rows

\* t.where((t.row_id == None) | (t.row_id == "")).collect()
NeedsBackfill(rows) ==
    SelectSeq(rows, LAMBDA row : row.row_id \in {NULL, ""})

\* t.where((t.<key> == row[<key>]) & (t.created_at == row["created_at"]))
\*  .update({"row_id": new_id})
UpdateByKey(rows, table_name, row, new_id) ==
    [i \in 1..Len(rows) |->
        IF /\ rows[i][KeyColumn(table_name)] = row[KeyColumn(table_name)]
           /\ rows[i].created_at = row.created_at
        THEN [rows[i] EXCEPT !.row_id = new_id]
        ELSE rows[i]]

\* The loop `for row in needs_backfill`, from its k-th round on, `uuids`
\* being the number of row ids drawn before.
RECURSIVE Backfill(_, _, _, _, _)
Backfill(rows, table_name, needs_backfill, k, uuids) ==
    IF k > Len(needs_backfill) THEN rows
    ELSE Backfill(UpdateByKey(rows, table_name, needs_backfill[k],
                              NewRowId(uuids + 1)),
                  table_name, needs_backfill, k + 1, uuids + 1)

\* The rows after step 1 of migrate_table.
WithColumn(columns, rows) ==
    IF "row_id" \in columns THEN rows ELSE AddColumn(rows)

\* migrate_table: the table's columns and rows when it returns, the number
\* of row ids drawn so far, and the dict it returns.
migrate_table(table_name, columns, rows, uuids) ==
    [columns |-> columns \union {"row_id"},
     rows |-> Backfill(WithColumn(columns, rows), table_name,
                       NeedsBackfill(WithColumn(columns, rows)), 1, uuids),
     uuids |-> uuids + Len(NeedsBackfill(WithColumn(columns, rows))),
     result |-> [table |-> table_name,
                 had_column |-> "row_id" \in columns,
                 rows_backfilled |->
                     Len(NeedsBackfill(WithColumn(columns, rows))),
                 total_rows |-> Len(rows)]]

\* verify_uniqueness: no row_id is None or empty, and no two are equal.
verify_uniqueness(rows) ==
    /\ \A i \in 1..Len(rows) : rows[i].row_id \notin {NULL, ""}
    /\ Len(rows) = Cardinality({rows[i].row_id : i \in 1..Len(rows)})

(***************************************************************************)
(* src/scripts/fix_memories_migration.py                                   *)
(***************************************************************************)

\* row.get(col, default)
Get(row, col, default) == IF col \in DOMAIN row THEN row[col] ELSE default

\* The entry that the export loop builds from a row.
Entry(row) ==
    [content |-> Get(row, "content", ""),
     memory_type |-> Get(row, "memory_type", "note"),
     projects |-> Get(row, "projects", <<>>),
     tags |-> Get(row, "tags", <<>>),
     source |-> Get(row, "source", ""),
     created_at |-> Get(row, "created_at", ""),
     updated_at |-> Get(row, "updated_at", "")]

\* An export that stops after the first row.
Exported_first_row(rows) ==
    [i \in 1..(IF Len(rows) = 0 THEN 0 ELSE 1) |-> Entry(rows[i])]

\* The list `exported` for the rows that t.collect() returned.
Exported(rows) == [i \in 1..Len(rows) |-> Entry(rows[i])]

\* BACKUP_PATH.write_text(json.dumps(exported, ...)): the file holds the
\* entries as a JSON array of objects.
BackupOf(exported) == [exists |-> TRUE, format |-> "json", entries |-> exported]

\* The columns of the table that step 3 creates.
RecreatedColumns ==
    {"row_id", "content", "memory_type", "projects", "tags", "source",
     "created_at", "updated_at"}

\* import_rows: each entry with a row_id drawn for it.
ImportRows(exported) ==
    [i \in 1..Len(exported) |-> ("row_id" :> NewRowId(i)) @@ exported[i]]

(***************************************************************************)
(* src/src/tools.py: memory_list and document_list.                        *)
(***************************************************************************)

\* The characters of an ISO 8601 stamp, in the order of their code points.
StampCharacters == "-0123456789:TZ"

\* The place of a character in that order.
Rank(c) == CHOOSE k \in 1..Len(StampCharacters) : Chr(StampCharacters, k) = c

\* a < b for two texts, as Pixeltable and Python compare strings, from the
\* i-th character on.
RECURSIVE LessText(_, _, _)
LessText(a, b, i) ==
    IF i > Len(b) THEN FALSE
    ELSE IF i > Len(a) THEN TRUE
    ELSE IF Chr(a, i) = Chr(b, i) THEN LessText(a, b, i + 1)
    ELSE Rank(Chr(a, i)) < Rank(Chr(b, i))

\* The orders in which order_by(t.created_at, asc=False) can return the
\* rows: newest first, rows of the same second in any order.
NewestFirst(rows) ==
    {order \in Permutations(1..Len(rows)) :
        \A i, j \in 1..Len(rows) :
            i < j => ~LessText(rows[order[i]].created_at,
                               rows[order[j]].created_at, 1)}

\* .limit(limit)
Limit(rows, limit) == IF Len(rows) <= limit THEN rows ELSE SubSeq(rows, 1, limit)

\* The column that memory_list or document_list filters on.
TypeColumn(table_name) ==
    IF table_name = "memory.memories" THEN "memory_type" ELSE "doc_type"

\* `if memory_type: q = q.where(t.memory_type == memory_type)`
WhereType(rows, table_name, type) ==
    IF type.present /\ type.value # ""
    THEN SelectSeq(rows, LAMBDA row : row[TypeColumn(table_name)] = type.value)
    ELSE rows

\* `if project: rows = [r for r in rows if project in r["projects"]]`
WithProject(rows, project) ==
    IF project.present /\ project.value # ""
    THEN SelectSeq(rows, LAMBDA row :
             \E i \in 1..Len(row.projects) : row.projects[i] = project.value)
    ELSE rows

\* The rows that _do_memory_list and _do_document_list return when the
\* query hands back the rows that match the type in the given order.
ListedIn(rows, table_name, order, limit, type, project) ==
    WithProject(Limit([i \in 1..Len(order) |->
                          WhereType(rows, table_name, type)[order[i]]],
                      limit),
                project)

\* A worker thread that runs no tool.
NoCall ==
    [pc |-> "idle", tool |-> "", table_name |-> "", row_id |-> "",
     args |-> <<>>, preview |-> "", result |-> [status |-> "none"]]

(***************************************************************************)
(* Inputs: the environments the process can start in and the requests it   *)
(* can receive.                                                            *)
(***************************************************************************)

\* Longest generated bearer token.
MaxTokenLen == 2

\* Characters of the generated tokens: two of the key "k1", a blank, and a
\* character outside ASCII (a header byte 0xE9, which Starlette decodes as
\* latin-1). TLC stores such a character by its low byte, so a printed trace
\* may show another character outside ASCII in its place.
TokenAlphabet == {"k", "1", " ", "é"}

\* Every string over TokenAlphabet of length at most n.
RECURSIVE Strings(_)
Strings(n) ==
    IF n = 0 THEN {""}
    ELSE Strings(n - 1)
         \cup {s \o c : s \in Strings(n - 1), c \in TokenAlphabet}

Environments ==
    [API_KEY : {None, Some("secret123"), Some("k1")},
     IP_WHITELIST_ENABLED : {None, Some("false"), Some("YES"), Some("0")},
     ALLOWED_IPS : {None, Some(" "),
                    Some("203.0.113.0/24, bogus,,198.51.100.42/32 ")}]

Request(cf, xff, auth, client) ==
    [headers |-> [cf_connecting_ip |-> cf, x_forwarded_for |-> xff,
                  authorization |-> auth],
     client |-> client]

\* Transport peers: LAN, extra-allowed, public, loopback, upstream provider,
\* IPv6, IPv4-mapped IPv6, and no peer at all.
Peers ==
    {Some("10.1.2.3"), Some("192.168.1.50"), Some("172.20.0.9"),
     Some("203.0.113.5"), Some("198.51.100.42"), Some("8.8.8.8"),
     Some("127.0.0.1"), Some("::1"), Some("160.79.104.7"),
     Some("34.162.46.92"), Some("::ffff:10.1.2.3"), Some("2001:db8::1"), None}

CFValues ==
    {Some(" 160.79.104.7 "), Some("127.0.0.1"), Some("8.8.8.8"),
     Some("not-an-ip"), Some("  "), Some("")}

XFFValues ==
    {Some("10.1.2.3, 8.8.8.8"), Some("8.8.8.8,10.1.2.3"), Some(", 10.1.2.3"),
     Some(" 127.0.0.1 ,x"), Some("garbage"), Some("")}

\* Authorization headers written out by hand.
FixedAuth ==
    {None, Some(""), Some("Bearer"), Some("bearer secret123"),
     Some("Basic secret123"), Some(" Bearer secret123"),
     Some("Bearer secret123"), Some("Bearer secret12"),
     Some("Bearer secret1234"), Some("Bearer Bearer secret123"),
     Some("Bearer wrong")}

\* "Bearer <token>" for every generated token.
GeneratedAuth == {Some("Bearer " \o tok) : tok \in Strings(MaxTokenLen)}

FewAuth == {None, Some("Bearer secret123"), Some("Bearer wrong")}

Requests ==
    \* every peer, no proxy header
    {Request(None, None, a, p) : a \in FewAuth, p \in Peers}
    \* a CF-Connecting-IP header, with or without X-Forwarded-For
    \cup {Request(cf, xff, a, p) :
            cf \in CFValues, xff \in {None, Some("10.1.2.3")},
            a \in FewAuth, p \in {Some("8.8.8.8"), Some("10.1.2.3")}}
    \* an X-Forwarded-For header alone
    \cup {Request(None, xff, a, p) :
            xff \in XFFValues, a \in FewAuth,
            p \in {Some("8.8.8.8"), Some("10.1.2.3")}}
    \* every Authorization header, from a LAN, a loopback and a public peer
    \cup {Request(None, None, a, p) :
            a \in FixedAuth \cup GeneratedAuth,
            p \in {Some("192.168.1.50"), Some("127.0.0.1"), Some("8.8.8.8")}}

(***************************************************************************)
(* State.                                                                  *)
(***************************************************************************)

VARIABLES
    environ,              \* os.environ after load_dotenv()
    cidr_lists,           \* auth.py's three CIDR list objects, by name
    invalid_cidrs,        \* the CIDRs logged as "Invalid CIDR", in order
    ANTHROPIC_NETWORKS,   \* auth.py module global
    LOOPBACK_NETWORKS,    \* auth.py module global
    user_middleware,      \* app.user_middleware, outermost first
    ip_whitelist,         \* the IPWhitelistMiddleware instance
    bearer_token,         \* the BearerTokenMiddleware instance
    inflight,             \* the requests being served, by connection
    tables,               \* the Pixeltable tables, by name
    clock,                \* the system clock, in whole seconds
    tool_calls,           \* the tool each worker thread runs, and how far
    responses,            \* the answers the client has received, in order
    schema,               \* the columns of each table that exists
    script,               \* the maintenance script that runs, and how far
    backup,               \* the file scripts/memories_backup.json
    files                 \* the file system under the vault tools

vars ==
    <<environ, cidr_lists, invalid_cidrs, ANTHROPIC_NETWORKS,
      LOOPBACK_NETWORKS, user_middleware, ip_whitelist, bearer_token, inflight,
      tables, clock, tool_calls, responses, schema, script, backup, files>>

config ==
    <<environ, cidr_lists, invalid_cidrs, ANTHROPIC_NETWORKS,
      LOOPBACK_NETWORKS, user_middleware, ip_whitelist, bearer_token>>

\* What the tools work on.
\* What the maintenance scripts work on besides the tables.
migration == <<schema, script, backup>>

store == <<tables, clock, tool_calls, responses, migration, files>>

\* No maintenance script runs: the five tables have the columns of
\* scripts/setup_schema.py and there is no backup file.
MigrationUnused ==
    /\ schema = [table_name \in TableNames |-> Columns(table_name)]
    /\ script = NoScript
    /\ backup = NoFile

\* No tool has run: the tables are empty and the one worker thread is idle.
StoreUnused ==
    /\ tables = [table_name \in TableNames |-> <<>>]
    /\ clock = 0
    /\ tool_calls = [w \in {1} |-> NoCall]
    /\ responses = <<>>
    /\ MigrationUnused
    /\ files = BareDisk

\* A connection with no request on it.
Idle ==
    [state |-> "idle", request |-> Request(None, None, None, None), at |-> 0,
     trail |-> <<>>, outcome |-> Pending]

\* The process after import of auth.py and config.py and after create_app()
\* has built and instantiated the middleware stack, with conns connections.
Started(env, conns) ==
    /\ environ = env
    /\ cidr_lists =
         [name \in {"ANTHROPIC_CIDRS", "LOOPBACK_CIDRS", "LAN_CIDRS"} |->
            ListsAfterStart(
                OptionsOf(create_app(env), "IPWhitelistMiddleware").enabled,
                env)[name]]
    /\ invalid_cidrs =
         WarningsAtStart(
             OptionsOf(create_app(env), "IPWhitelistMiddleware").enabled, env)
    /\ ANTHROPIC_NETWORKS = _parse_networks(ANTHROPIC_CIDRS)
    /\ LOOPBACK_NETWORKS = _parse_networks(LOOPBACK_CIDRS)
    /\ user_middleware = create_app(env)
    /\ ip_whitelist =
         IPWhitelistMiddleware(
             OptionsOf(create_app(env), "IPWhitelistMiddleware").enabled, env)
    /\ bearer_token =
         BearerTokenMiddleware(
             OptionsOf(create_app(env), "BearerTokenMiddleware").api_key)
    /\ inflight = [c \in conns |-> Idle]

Init == StoreUnused /\ \E env \in Environments : Started(env, {1})

(***************************************************************************)
(* Serving a request: it enters the stack at user_middleware[1]; each      *)
(* dispatch either answers it or hands it to the next entry; past the last *)
(* entry sits the FastMCP app.                                             *)
(***************************************************************************)

\* The request on connection c has been through cls, which ended as `outcome`
\* says; the trail keeps which stages saw the request and how each ended.
Step(c, cls, outcome) ==
    inflight' =
        [inflight EXCEPT
            ![c].trail = Append(@, [cls |-> cls, kind |-> outcome.kind]),
            ![c].at = IF outcome.kind = "call_next" THEN @ + 1 ELSE @,
            ![c].state = IF outcome.kind = "call_next" THEN "active" ELSE "done",
            ![c].outcome = outcome]

\* The class whose dispatch the request on c is about to enter.
StageOf(c) ==
    IF inflight[c].at \in 1..Len(user_middleware)
    THEN user_middleware[inflight[c].at].cls
    ELSE "app"

\* A request arrives on an idle connection.
Receive(c, r) ==
    /\ inflight[c].state = "idle"
    /\ inflight' =
         [inflight EXCEPT ![c] =
            [state |-> "active", request |-> r, at |-> 1, trail |-> <<>>,
             outcome |-> Pending]]
    /\ UNCHANGED <<config, store>>

\* IPWhitelistMiddleware.dispatch with `self.enabled = False` before the
\* return of its 403: the filter switches itself off at the first denial.
IPWhitelistDispatch_disables_itself(c) ==
    /\ inflight[c].state = "active"
    /\ StageOf(c) = "IPWhitelistMiddleware"
    /\ Step(c, "IPWhitelistMiddleware",
            IPWhitelist_dispatch(ip_whitelist, inflight[c].request))
    /\ ip_whitelist' =
         [ip_whitelist EXCEPT
            !.enabled =
                IF IPWhitelist_dispatch(ip_whitelist, inflight[c].request)
                       = CallNext
                THEN @ ELSE FALSE]
    /\ UNCHANGED <<environ, cidr_lists, invalid_cidrs, ANTHROPIC_NETWORKS,
                   LOOPBACK_NETWORKS, user_middleware, bearer_token, store>>

\* IPWhitelistMiddleware.dispatch runs on the request of c.
IPWhitelistDispatch(c) ==
    /\ inflight[c].state = "active"
    /\ StageOf(c) = "IPWhitelistMiddleware"
    /\ Step(c, "IPWhitelistMiddleware",
            IPWhitelist_dispatch(ip_whitelist, inflight[c].request))
    /\ UNCHANGED <<config, store>>

\* BearerTokenMiddleware.dispatch keeping the request in an attribute of self
\* across its calls: the task of c works with whichever request was put
\* there, here the one of the first busy connection.
BearerTokenDispatch_shared_request(c) ==
    /\ inflight[c].state = "active"
    /\ StageOf(c) = "BearerTokenMiddleware"
    /\ Step(c, "BearerTokenMiddleware",
            BearerToken_dispatch(
                bearer_token,
                inflight[CHOOSE d \in DOMAIN inflight :
                            /\ inflight[d].state # "idle"
                            /\ \A e \in DOMAIN inflight :
                                  inflight[e].state # "idle" => d <= e].request,
                ANTHROPIC_NETWORKS, LOOPBACK_NETWORKS))
    /\ UNCHANGED <<config, store>>

\* BearerTokenMiddleware.dispatch taking its exemptions from the Origin
\* Filter: with the filter disabled it knows no exempt network.
BearerTokenDispatch_inherits_filter(c) ==
    /\ inflight[c].state = "active"
    /\ StageOf(c) = "BearerTokenMiddleware"
    /\ Step(c, "BearerTokenMiddleware",
            BearerToken_dispatch(
                bearer_token, inflight[c].request,
                IF ip_whitelist.enabled THEN ANTHROPIC_NETWORKS ELSE <<>>,
                IF ip_whitelist.enabled THEN LOOPBACK_NETWORKS ELSE <<>>))
    /\ UNCHANGED <<config, store>>

\* BearerTokenMiddleware.dispatch runs on the request of c.
BearerTokenDispatch(c) ==
    /\ inflight[c].state = "active"
    /\ StageOf(c) = "BearerTokenMiddleware"
    /\ Step(c, "BearerTokenMiddleware",
            BearerToken_dispatch(bearer_token, inflight[c].request,
                                 ANTHROPIC_NETWORKS, LOOPBACK_NETWORKS))
    /\ UNCHANGED <<config, store>>

\* The request of c reaches the FastMCP app, which answers it.
Handle(c) ==
    /\ inflight[c].state = "active"
    /\ StageOf(c) = "app"
    /\ Step(c, "app", Handled)
    /\ UNCHANGED <<config, store>>

\* The answer is sent and the request is dropped.
Respond(c) ==
    /\ inflight[c].state = "done"
    /\ inflight' = [inflight EXCEPT ![c] = Idle]
    /\ UNCHANGED <<config, store>>

Conns == DOMAIN inflight

Next ==
    \/ \E c \in Conns, r \in Requests : Receive(c, r)
    \/ \E c \in Conns : IPWhitelistDispatch(c)
    \/ \E c \in Conns : BearerTokenDispatch(c)
    \/ \E c \in Conns : Handle(c)
    \/ \E c \in Conns : Respond(c)

Spec == Init /\ [][Next]_vars

(***************************************************************************)
(* Several requests in flight at once: uvicorn runs each request as its    *)
(* own task on one event loop, and a dispatch gives up control only at its *)
(* `await call_next(request)`, so tasks interleave between stages.         *)
(***************************************************************************)

\* Connections open at once.
MaxConns == 2

\* Environments of the concurrent runs: a key is set, the filter is enabled
\* or disabled.
ConcurrentEnvironments ==
    [API_KEY : {Some("secret123")},
     IP_WHITELIST_ENABLED : {None, Some("false")},
     ALLOWED_IPS : {None}]

\* Requests of the concurrent runs, one for each way through the gate: LAN
\* with the key, with a wrong key, with a token outside ASCII and without a
\* header; a public peer; a loopback peer without a header.
ConcurrentRequests ==
    {Request(None, None, Some("Bearer secret123"), Some("192.168.1.50")),
     Request(None, None, Some("Bearer wrong"), Some("192.168.1.50")),
     Request(None, None, Some("Bearer é"), Some("192.168.1.50")),
     Request(None, None, None, Some("192.168.1.50")),
     Request(None, None, Some("Bearer secret123"), Some("8.8.8.8")),
     Request(None, None, None, Some("127.0.0.1"))}

InitConcurrent ==
    /\ StoreUnused
    /\ \E env \in ConcurrentEnvironments : Started(env, 1..MaxConns)

NextConcurrent ==
    \/ \E c \in Conns, r \in ConcurrentRequests : Receive(c, r)
    \/ \E c \in Conns : IPWhitelistDispatch(c)
    \/ \E c \in Conns : BearerTokenDispatch(c)
    \/ \E c \in Conns : Handle(c)
    \/ \E c \in Conns : Respond(c)

SpecConcurrent == InitConcurrent /\ [][NextConcurrent]_vars

(***************************************************************************)
(* The process started under every spelling of IP_WHITELIST_ENABLED.       *)
(***************************************************************************)

\* Longest generated value of IP_WHITELIST_ENABLED.
MaxFlagLen == 2

\* Characters of the generated values: the one-character spellings and
\* near-spellings of "1" and "yes", and a blank.
FlagAlphabet == {"1", "y", "Y", " "}

\* Every string over FlagAlphabet of length at most n.
RECURSIVE FlagStrings(_)
FlagStrings(n) ==
    IF n = 0 THEN {""}
    ELSE FlagStrings(n - 1)
         \cup {s \o c : s \in FlagStrings(n - 1), c \in FlagAlphabet}

\* Values of IP_WHITELIST_ENABLED: unset, the three documented words, the
\* same in other cases, near misses, the documented ways to disable, and the
\* generated strings.
FlagValues ==
    {None}
    \cup {Some(s) :
            s \in {"true", "1", "yes", "TRUE", "True", "tRuE", "YES", "Yes",
                   "false", "0", "no", "on", "off", "enabled", " true",
                   "true ", "yes\t", "tru", "truee", "ye", "11", "01", "t"}}
    \cup {Some(s) : s \in FlagStrings(MaxFlagLen)}

FlagEnvironments ==
    [API_KEY : {Some("secret123")},
     IP_WHITELIST_ENABLED : FlagValues,
     ALLOWED_IPS : {None}]

\* A public peer, a LAN peer with the key, a loopback peer.
FlagRequests ==
    {Request(None, None, None, Some("8.8.8.8")),
     Request(None, None, Some("Bearer secret123"), Some("10.1.2.3")),
     Request(None, None, None, Some("127.0.0.1"))}

InitFlag == StoreUnused /\ \E env \in FlagEnvironments : Started(env, {1})

NextFlag ==
    \/ \E c \in Conns, r \in FlagRequests : Receive(c, r)
    \/ \E c \in Conns : IPWhitelistDispatch(c)
    \/ \E c \in Conns : BearerTokenDispatch(c)
    \/ \E c \in Conns : Handle(c)
    \/ \E c \in Conns : Respond(c)

SpecFlag == InitFlag /\ [][NextFlag]_vars

(***************************************************************************)
(* The update tools at work on the tables. FastMCP hands each tool call to *)
(* a worker thread (asyncio.to_thread in _run_sync); the thread reads the  *)
(* table, writes it and reads it again, three Pixeltable operations with   *)
(* the clock and other threads free to move in between.                    *)
(***************************************************************************)

MaxClock == 2
MaxGiven == 1

\* The row that a _do_*_add wrote at the time `now`.
StoredRow(table_name, row_id, now) ==
    [col \in Columns(table_name) |->
        CASE col = "row_id" -> row_id
          [] col \in {"created_at", "updated_at"} -> now
          [] col \in ListColumns -> <<"old">>
          [] OTHER -> "old"]

\* The row ids in a table when the tools start, in insertion order.
StoredRowIds == {<<"r2">>, <<"r1", "r2">>, <<"r1", "r1", "r2">>}

\* The row ids a client asks for.
AskedRowIds == {"r1", "zz"}

\* The value a client gives for a parameter: fresh text or a fresh list, or
\* the empty one.
Given(name, text) ==
    IF name \in ListColumns
    THEN Some(IF text = "" THEN <<>> ELSE <<text>>)
    ELSE Some(text)

\* The sets of parameters a client gives: few of them, or all but a few.
GivenSets(table_name) ==
    {names \in SUBSET UpdateParams(table_name) :
        \/ Cardinality(names) <= MaxGiven
        \/ Cardinality(UpdateParams(table_name) \ names) <= MaxGiven}

\* The keyword arguments of an update call.
UpdateArgs(table_name) ==
    {[name \in UpdateParams(table_name) |->
        IF name \in names THEN Given(name, text) ELSE None] :
     names \in GivenSets(table_name), text \in {"new", ""}}

\* The environment the server runs in while the tools are exercised.
ToolsEnvironment ==
    [API_KEY |-> Some("secret123"), IP_WHITELIST_ENABLED |-> None,
     ALLOWED_IPS |-> None]

\* The gateway's own state, which no tool touches.
gate == <<config, inflight>>

\* memory_update, bookmark_update, chat_update, project_update and
\* document_update: the call is handed to the worker thread w.
CallUpdate(w) ==
    /\ tool_calls[w].pc = "idle"
    /\ \E table_name \in TableNames, row_id \in AskedRowIds :
          \E args \in UpdateArgs(table_name) :
              tool_calls' = [tool_calls EXCEPT ![w] =
                  [pc |-> "check", tool |-> "update",
                   table_name |-> table_name, row_id |-> row_id,
                   args |-> args, preview |-> "",
                   result |-> [status |-> "none"]]]
    /\ UNCHANGED <<gate, migration, files, tables, clock, responses>>

\* _do_*_update up to its early return: does the row exist?
UpdateCheck(w) ==
    /\ tool_calls[w].pc = "check"
    /\ tool_calls' = [tool_calls EXCEPT ![w] =
           IF Len(Collect(tables[@.table_name], @.row_id)) = 0
           THEN [pc |-> "returned", tool |-> @.tool,
                 table_name |-> @.table_name, row_id |-> @.row_id,
                 args |-> @.args, preview |-> @.preview,
                 result |-> NotFound(@.table_name, @.row_id)]
           ELSE [pc |-> "update", tool |-> @.tool,
                 table_name |-> @.table_name, row_id |-> @.row_id,
                 args |-> @.args, preview |-> @.preview, result |-> @.result]]
    /\ UNCHANGED <<gate, migration, files, tables, clock, responses>>

\* _do_*_update: build `updates` and write them to the rows with the row_id.
UpdateApply(w) ==
    /\ tool_calls[w].pc = "update"
    /\ tables' = [tables EXCEPT ![tool_calls[w].table_name] =
           Update(@, tool_calls[w].row_id,
                  UpdatesOf(tool_calls[w].table_name, _now_iso(clock),
                            tool_calls[w].args))]
    /\ tool_calls' = [tool_calls EXCEPT ![w].pc = "reread"]
    /\ UNCHANGED <<gate, migration, files, clock, responses>>

\* _do_*_update: fetch the updated row and return it.
UpdateReread(w) ==
    /\ tool_calls[w].pc = "reread"
    /\ tool_calls' = [tool_calls EXCEPT ![w] =
           [pc |-> "returned", tool |-> @.tool, table_name |-> @.table_name,
            row_id |-> @.row_id, args |-> @.args, preview |-> @.preview,
            result |-> UpdatedResult(Collect(tables[@.table_name], @.row_id))]]
    /\ UNCHANGED <<gate, migration, files, tables, clock, responses>>

\* A second passes.
Tick ==
    /\ clock < MaxClock
    /\ clock' = clock + 1
    /\ UNCHANGED <<gate, migration, files, tables, tool_calls, responses>>

\* The tables hold rows written at the clock's start, and the worker threads
\* are idle.
ToolsStarted(row_ids, workers) ==
    /\ tables = [table_name \in TableNames |->
           [i \in 1..Len(row_ids) |->
               StoredRow(table_name, row_ids[i], _now_iso(0))]]
    /\ clock = 0
    /\ tool_calls = [w \in workers |-> NoCall]
    /\ responses = <<>>
    /\ MigrationUnused
    /\ files = BareDisk

InitTools ==
    /\ Started(ToolsEnvironment, {1})
    /\ \E row_ids \in StoredRowIds : ToolsStarted(row_ids, {1})

NextTools ==
    \/ \E w \in DOMAIN tool_calls : CallUpdate(w)
    \/ \E w \in DOMAIN tool_calls : UpdateCheck(w)
    \/ \E w \in DOMAIN tool_calls : UpdateApply(w)
    \/ \E w \in DOMAIN tool_calls : UpdateReread(w)
    \/ Tick

SpecTools == InitTools /\ [][NextTools]_vars

(***************************************************************************)
(* The delete tools, and a client that calls one tool after another, up to *)
(* MaxCalls times: each answer reaches it before it makes its next call.   *)
(***************************************************************************)

MaxCalls == 2

\* memory_delete, bookmark_delete, chat_delete, project_delete and
\* document_delete: the call is handed to the worker thread w.
CallDelete(w) ==
    /\ tool_calls[w].pc = "idle"
    /\ Len(responses) < MaxCalls
    /\ \E table_name \in TableNames, row_id \in AskedRowIds :
          tool_calls' = [tool_calls EXCEPT ![w] =
              [pc |-> "delete_check", tool |-> "delete",
               table_name |-> table_name, row_id |-> row_id, args |-> <<>>,
               preview |-> "", result |-> [status |-> "none"]]]
    /\ UNCHANGED <<gate, migration, files, tables, clock, responses>>

\* An update call that gives a fresh value for every parameter.
CallUpdateAll(w) ==
    /\ tool_calls[w].pc = "idle"
    /\ Len(responses) < MaxCalls
    /\ \E table_name \in TableNames, row_id \in AskedRowIds :
          tool_calls' = [tool_calls EXCEPT ![w] =
              [pc |-> "check", tool |-> "update",
               table_name |-> table_name, row_id |-> row_id,
               args |-> [name \in UpdateParams(table_name) |->
                            Given(name, "new")],
               preview |-> "", result |-> [status |-> "none"]]]
    /\ UNCHANGED <<gate, migration, files, tables, clock, responses>>

\* _do_*_delete up to the preview: does the row exist, and how does it start?
DeleteCheck(w) ==
    /\ tool_calls[w].pc = "delete_check"
    /\ tool_calls' = [tool_calls EXCEPT ![w] =
           IF Len(Collect(tables[@.table_name], @.row_id)) = 0
           THEN [pc |-> "returned", tool |-> @.tool,
                 table_name |-> @.table_name, row_id |-> @.row_id,
                 args |-> @.args, preview |-> @.preview,
                 result |-> NotFound(@.table_name, @.row_id)]
           ELSE [pc |-> "delete", tool |-> @.tool,
                 table_name |-> @.table_name, row_id |-> @.row_id,
                 args |-> @.args,
                 preview |-> PreviewOf(@.table_name,
                                 Collect(tables[@.table_name], @.row_id)),
                 result |-> @.result]]
    /\ UNCHANGED <<gate, migration, files, tables, clock, responses>>

\* _do_*_delete: delete the rows with the row_id and return.
DeleteApply(w) ==
    /\ tool_calls[w].pc = "delete"
    /\ tables' = [tables EXCEPT ![tool_calls[w].table_name] =
           Delete(@, tool_calls[w].row_id)]
    /\ tool_calls' = [tool_calls EXCEPT ![w] =
           [pc |-> "returned", tool |-> @.tool, table_name |-> @.table_name,
            row_id |-> @.row_id, args |-> @.args, preview |-> @.preview,
            result |-> DeletedResult(@.table_name, @.row_id, @.preview)]]
    /\ UNCHANGED <<gate, migration, files, clock, responses>>

\* _run_sync returns: the answer goes to the client and the thread is free.
Return(w) ==
    /\ tool_calls[w].pc = "returned"
    /\ responses' = Append(responses,
           [tool |-> tool_calls[w].tool,
            table_name |-> tool_calls[w].table_name,
            row_id |-> tool_calls[w].row_id,
            result |-> tool_calls[w].result])
    /\ tool_calls' = [tool_calls EXCEPT ![w] = NoCall]
    /\ UNCHANGED <<gate, migration, files, tables, clock>>

InitDelete ==
    /\ Started(ToolsEnvironment, {1})
    /\ \E row_ids \in StoredRowIds : ToolsStarted(row_ids, {1})

NextDelete ==
    \/ \E w \in DOMAIN tool_calls : CallDelete(w)
    \/ \E w \in DOMAIN tool_calls : CallUpdateAll(w)
    \/ \E w \in DOMAIN tool_calls : DeleteCheck(w)
    \/ \E w \in DOMAIN tool_calls : DeleteApply(w)
    \/ \E w \in DOMAIN tool_calls : UpdateCheck(w)
    \/ \E w \in DOMAIN tool_calls : UpdateApply(w)
    \/ \E w \in DOMAIN tool_calls : UpdateReread(w)
    \/ \E w \in DOMAIN tool_calls : Return(w)

SpecDelete == InitDelete /\ [][NextDelete]_vars

(***************************************************************************)
(* The vault tools at work on a file system, for a client that makes up to *)
(* MaxCalls calls one after another.                                       *)
(***************************************************************************)

\* The file systems the gateway can find itself on.
Disks == {BareDisk, MacDisk}

\* The paths a client names.
VaultPaths ==
    {"/Users/jung/Documents/AINAVault",
     "/Users/jung/Documents/AINAVault/notes/a.md",
     "/Users/jung/Documents/AINAVault/new/b.md",
     "/Users/jung/Documents/AINAVault/../secret.txt",
     "/Users/jung/Documents/AINAVault/out/passwd",
     "/Users/jung/Documents/AINAVaultX/a.md",
     "/etc/passwd",
     "/tmp/in/./x.md",
     "notes.md"}

\* A vault call, answered in one go by the worker thread w.
VaultCall(w, tool, path, content, result) ==
    /\ tool_calls[w].pc = "idle"
    /\ Len(responses) < MaxCalls
    /\ tool_calls' = [tool_calls EXCEPT ![w] =
           [pc |-> "returned", tool |-> tool, table_name |-> "",
            row_id |-> "", args |-> [path |-> path, content |-> content],
            preview |-> "", result |-> result]]
    /\ UNCHANGED <<gate, migration, tables, clock, responses>>

\* vault_read
VaultRead(w) ==
    \E path \in VaultPaths :
        /\ VaultCall(w, "vault_read", path, "", vault_read(files, path))
        /\ files' = files

\* vault_write
VaultWrite(w) ==
    \E path \in VaultPaths, content \in {"text"} :
        /\ VaultCall(w, "vault_write", path, content,
                     vault_write(files, path, content))
        /\ files' = vault_write_files(files, path, content)

\* vault_list
VaultList(w) ==
    \E path \in VaultPaths :
        /\ VaultCall(w, "vault_list", path, "", vault_list(files, path))
        /\ files' = files

InitVault ==
    /\ Started(ToolsEnvironment, {1})
    /\ tables = [table_name \in TableNames |-> <<>>]
    /\ clock = 0
    /\ tool_calls = [w \in {1} |-> NoCall]
    /\ responses = <<>>
    /\ MigrationUnused
    /\ files \in Disks

NextVault ==
    \/ \E w \in DOMAIN tool_calls : VaultRead(w)
    \/ \E w \in DOMAIN tool_calls : VaultWrite(w)
    \/ \E w \in DOMAIN tool_calls : VaultList(w)
    \/ \E w \in DOMAIN tool_calls : Return(w)

SpecVault == InitVault /\ [][NextVault]_vars

(***************************************************************************)
(* scripts/migrate_add_row_id.py at work, run up to MaxRuns times on       *)
(* tables that older versions of the gateway have filled.                  *)
(***************************************************************************)

MaxRows == 2
MaxRuns == 2

\* A row written before the tables had a row_id column.
LegacyRow(table_name, key, created_at) ==
    [col \in Columns(table_name) \ {"row_id"} |->
        CASE col = KeyColumn(table_name) -> key
          [] col \in {"created_at", "updated_at"} -> created_at
          [] col \in ListColumns -> <<"old">>
          [] OTHER -> "old"]

\* What tells the rows of a table apart when the script starts: for each
\* row, its key text and the second in which it was created.
Seeds ==
    UNION {[1..n -> {"a", "b"} \X {0, 1}] : n \in 0..MaxRows}

\* The state of the row_id column when the script starts: not there, there
\* and NULL in every row, or there and empty in every row.
ColumnStates == {"absent", "null", "empty"}

\* The rows of a table for the given seed and column state.
LegacyRows(table_name, seed, column) ==
    [i \in 1..Len(seed) |->
        IF column = "absent"
        THEN LegacyRow(table_name, seed[i][1], _now_iso(seed[i][2]))
        ELSE ("row_id" :> (IF column = "null" THEN NULL ELSE ""))
                @@ LegacyRow(table_name, seed[i][1], _now_iso(seed[i][2]))]

\* main() starts its run-th run.
MigrateStarted(run) ==
    [pc |-> "migrate", i |-> 1, run |-> run, uuids |-> 0, results |-> <<>>,
     all_ok |-> TRUE]

\* main(), first loop: migrate_table on the next of the TABLES.
MigrateNext ==
    /\ script.pc = "migrate"
    /\ tables' = [tables EXCEPT ![TABLES[script.i]] =
           migrate_table(TABLES[script.i], schema[TABLES[script.i]], @,
                         script.uuids).rows]
    /\ schema' = [schema EXCEPT ![TABLES[script.i]] =
           migrate_table(TABLES[script.i], @, tables[TABLES[script.i]],
                         script.uuids).columns]
    /\ script' = [pc |-> IF script.i = Len(TABLES) THEN "verify" ELSE "migrate",
                  i |-> script.i + 1,
                  run |-> script.run,
                  uuids |-> migrate_table(TABLES[script.i],
                                schema[TABLES[script.i]],
                                tables[TABLES[script.i]], script.uuids).uuids,
                  results |-> Append(script.results,
                      migrate_table(TABLES[script.i], schema[TABLES[script.i]],
                          tables[TABLES[script.i]], script.uuids).result),
                  all_ok |-> script.all_ok]
    /\ UNCHANGED <<gate, files, backup, clock, tool_calls, responses>>

\* main(), second loop: verify_uniqueness on each of the TABLES.
Verify ==
    /\ script.pc = "verify"
    /\ script' = [pc |-> "done", i |-> script.i, run |-> script.run,
                  uuids |-> script.uuids, results |-> script.results,
                  all_ok |-> \A k \in 1..Len(TABLES) :
                                 verify_uniqueness(tables[TABLES[k]])]
    /\ UNCHANGED <<gate, files, backup, schema, tables, clock, tool_calls,
                   responses>>

\* The script is started once more.
RunAgain ==
    /\ script.pc = "done"
    /\ script.run < MaxRuns
    /\ script' = MigrateStarted(script.run + 1)
    /\ UNCHANGED <<gate, files, backup, schema, tables, clock, tool_calls,
                   responses>>

InitMigrate ==
    /\ Started(ToolsEnvironment, {1})
    /\ \E seed \in Seeds, column \in ColumnStates :
          /\ tables = [table_name \in TableNames |->
                          LegacyRows(table_name, seed, column)]
          /\ schema = [table_name \in TableNames |->
                          IF column = "absent"
                          THEN Columns(table_name) \ {"row_id"}
                          ELSE Columns(table_name)]
    /\ script = MigrateStarted(1)
    /\ backup = NoFile
    /\ clock = 0
    /\ tool_calls = [w \in {1} |-> NoCall]
    /\ responses = <<>>
    /\ files = BareDisk

NextMigrate ==
    \/ MigrateNext
    \/ Verify
    \/ RunAgain

SpecMigrate == InitMigrate /\ [][NextMigrate]_vars

(***************************************************************************)
(* scripts/fix_memories_migration.py at work: one action for each step of  *)
(* main(); the run can stop for good after any of them.                    *)
(***************************************************************************)

\* main() starts.
FixStarted == [pc |-> "export", exported |-> <<>>, ok |-> FALSE]

\* Step 1, first half: collect the rows and build `exported`.
FixExport ==
    /\ script.pc = "export"
    /\ script' = [pc |-> "backup",
                  exported |-> Exported(tables["memory.memories"]),
                  ok |-> script.ok]
    /\ UNCHANGED <<gate, files, backup, schema, tables, clock, tool_calls,
                   responses>>

\* Step 1, second half: write the backup file.
FixWriteBackup ==
    /\ script.pc = "backup"
    /\ backup' = BackupOf(script.exported)
    /\ script' = [script EXCEPT !.pc = "drop"]
    /\ UNCHANGED <<gate, files, schema, tables, clock, tool_calls, responses>>

\* Step 2: pxt.drop_table("memory.memories").
FixDrop ==
    /\ script.pc = "drop"
    /\ tables' = [table_name \in DOMAIN tables \ {"memory.memories"} |->
                     tables[table_name]]
    /\ schema' = [table_name \in DOMAIN schema \ {"memory.memories"} |->
                     schema[table_name]]
    /\ script' = [script EXCEPT !.pc = "create"]
    /\ UNCHANGED <<gate, files, backup, clock, tool_calls, responses>>

\* Step 3: pxt.create_table("memory.memories", {...}).
FixCreate ==
    /\ script.pc = "create"
    /\ tables' = ("memory.memories" :> <<>>) @@ tables
    /\ schema' = ("memory.memories" :> RecreatedColumns) @@ schema
    /\ script' = [script EXCEPT !.pc = "import"]
    /\ UNCHANGED <<gate, files, backup, clock, tool_calls, responses>>

\* Step 4: give each entry a row_id and insert them all.
FixImport ==
    /\ script.pc = "import"
    /\ tables' = [tables EXCEPT !["memory.memories"] =
                     @ \o ImportRows(script.exported)]
    /\ script' = [script EXCEPT !.pc = "verify"]
    /\ UNCHANGED <<gate, files, backup, schema, clock, tool_calls, responses>>

\* Step 5: count_ok and not empty and unique.
FixVerify ==
    /\ script.pc = "verify"
    /\ script' = [pc |-> "done", exported |-> script.exported,
                  ok |-> /\ Len(tables["memory.memories"])
                               = Len(script.exported)
                         /\ verify_uniqueness(tables["memory.memories"])]
    /\ UNCHANGED <<gate, files, backup, schema, tables, clock, tool_calls,
                   responses>>

InitFix ==
    /\ Started(ToolsEnvironment, {1})
    /\ \E seed \in Seeds, column \in ColumnStates :
          /\ tables = [table_name \in TableNames |->
                          LegacyRows(table_name, seed, column)]
          /\ schema = [table_name \in TableNames |->
                          IF column = "absent"
                          THEN Columns(table_name) \ {"row_id"}
                          ELSE Columns(table_name)]
    /\ script = FixStarted
    /\ backup = NoFile
    /\ clock = 0
    /\ tool_calls = [w \in {1} |-> NoCall]
    /\ responses = <<>>
    /\ files = BareDisk

NextFix ==
    \/ FixExport
    \/ FixWriteBackup
    \/ FixDrop
    \/ FixCreate
    \/ FixImport
    \/ FixVerify

SpecFix == InitFix /\ [][NextFix]_vars

(***************************************************************************)
(* memory_list and document_list at work on tables of rows that differ in  *)
(* type, projects and age.                                                 *)
(***************************************************************************)

MaxLimit == 2

\* What tells the rows apart: type, projects, and second of creation.
ListSeeds ==
    UNION {[1..n -> {"a", "b"} \X {<<>>, <<"p">>} \X (0..2)] :
              n \in 0..MaxRows}

\* A row of the given type, projects and age, as an add tool writes it.
ListedRow(table_name, i, seed) ==
    [col \in Columns(table_name) |->
        CASE col = "row_id" -> NewRowId(i)
          [] col = TypeColumn(table_name) -> seed[1]
          [] col = "projects" -> seed[2]
          [] col \in {"created_at", "updated_at"} -> _now_iso(seed[3])
          [] col \in ListColumns -> <<"old">>
          [] OTHER -> "old"]

\* memory_list and document_list: one query, answered by the worker thread.
CallList(w) ==
    /\ tool_calls[w].pc = "idle"
    /\ \E table_name \in {"memory.memories", "memory.documents"},
          limit \in 1..MaxLimit,
          type \in {None, Some(""), Some("a")},
          project \in {None, Some(""), Some("p")} :
          \E order \in NewestFirst(WhereType(tables[table_name], table_name,
                                             type)) :
              tool_calls' = [tool_calls EXCEPT ![w] =
                  [pc |-> "returned", tool |-> "list",
                   table_name |-> table_name, row_id |-> "",
                   args |-> [limit |-> limit, type |-> type,
                             project |-> project],
                   preview |-> "",
                   result |-> [rows |-> ListedIn(tables[table_name],
                                   table_name, order, limit, type, project)]]]
    /\ UNCHANGED <<gate, migration, files, tables, clock, responses>>

InitList ==
    /\ Started(ToolsEnvironment, {1})
    /\ \E seed \in ListSeeds :
          tables = [table_name \in TableNames |->
                       [i \in 1..Len(seed) |->
                           ListedRow(table_name, i, seed[i])]]
    /\ clock = 0
    /\ tool_calls = [w \in {1} |-> NoCall]
    /\ responses = <<>>
    /\ MigrationUnused
    /\ files = BareDisk

NextList ==
    \/ \E w \in DOMAIN tool_calls : CallList(w)

SpecList == InitList /\ [][NextList]_vars

(***************************************************************************)
(* Tool calls that interleave: _run_sync hands each call to a worker        *)
(* thread of its own, and MaxWorkers clients call an update or a delete    *)
(* tool at the same time, once each.                                       *)
(***************************************************************************)

MaxWorkers == 2

InitRace ==
    /\ Started(ToolsEnvironment, {1})
    /\ \E row_ids \in StoredRowIds : ToolsStarted(row_ids, 1..MaxWorkers)

NextRace ==
    \/ \E w \in DOMAIN tool_calls : CallDelete(w)
    \/ \E w \in DOMAIN tool_calls : CallUpdateAll(w)
    \/ \E w \in DOMAIN tool_calls : DeleteCheck(w)
    \/ \E w \in DOMAIN tool_calls : DeleteApply(w)
    \/ \E w \in DOMAIN tool_calls : UpdateCheck(w)
    \/ \E w \in DOMAIN tool_calls : UpdateApply(w)
    \/ \E w \in DOMAIN tool_calls : UpdateReread(w)

SpecRace == InitRace /\ [][NextRace]_vars

(***************************************************************************)
(* Vocabulary of the properties.                                           *)
(***************************************************************************)

IPW == "IPWhitelistMiddleware"

BTM == "BearerTokenMiddleware"

\* The request on connection c has been through stage cls.
Saw(c, cls) ==
    \E i \in 1..Len(inflight[c].trail) : inflight[c].trail[i].cls = cls

\* Stage cls handed the request on c to the next stage.
Forwarded(c, cls) ==
    \E i \in 1..Len(inflight[c].trail) :
        inflight[c].trail[i] = [cls |-> cls, kind |-> "call_next"]

\* Stage cls ended the request on c itself (a response or an exception).
Stopped(c, cls) == Saw(c, cls) /\ ~Forwarded(c, cls)

\* The ClientIdentity of the request on c.
ClientIdentity(c) == _get_client_ip(inflight[c].request)

\* The Authorization header of the request on c ("" when absent).
Authorization(c) == get(inflight[c].request.headers.authorization, "")

\* a <= b for two tuples of numbers of one length, first part most significant.
RECURSIVE LexLE(_, _)
LexLE(a, b) ==
    IF Len(a) = 0 THEN TRUE
    ELSE IF Head(a) # Head(b) THEN Head(a) < Head(b)
    ELSE LexLE(Tail(a), Tail(b))

\* The highest address of a network: every host bit set.
LastAddress(network) ==
    LET w == IF network.version = 4 THEN 8 ELSE 16
        hostbits(i) ==
            IF w * i <= network.prefixlen THEN 0
            ELSE IF w * (i - 1) >= network.prefixlen THEN w
            ELSE w * i - network.prefixlen
    IN  [i \in 1..Len(network.parts) |->
            network.parts[i] + 2 ^ hostbits(i) - 1]

\* The address lies between the first and the last address of the network.
InRange(addr, network) ==
    /\ addr.ok
    /\ addr.version = network.version
    /\ LexLE(network.parts, addr.parts)
    /\ LexLE(addr.parts, LastAddress(network))

\* The address text reads as an address inside one of the networks.
InSomeRange(ip_str, networks) ==
    \E i \in 1..Len(networks) : InRange(ip_address(ip_str), networks[i])

(***************************************************************************)
(* Properties.                                                             *)
(***************************************************************************)

\* C1: every request is evaluated by the Origin Filter first, reaches the
\* Credential Gate only after the Origin Filter let it through, and reaches
\* the handler only after both stages let it through, in that order.
C1_OriginFilterThenCredentialGate ==
    \A c \in Conns :
        LET trail == inflight[c].trail
        IN  \A i \in 1..Len(trail) :
                /\ trail[i].cls = IPW => i = 1
                /\ trail[i].cls = BTM =>
                      /\ i = 2
                      /\ trail[1] = [cls |-> IPW, kind |-> "call_next"]
                /\ trail[i].cls = "app" =>
                      /\ i = 3
                      /\ trail[1] = [cls |-> IPW, kind |-> "call_next"]
                      /\ trail[2] = [cls |-> BTM, kind |-> "call_next"]

\* C1 witness: with both stages active, a LAN request carrying the key has
\* been through the Origin Filter, the Credential Gate and the handler.
C1_Witness ==
    \E c \in Conns :
        /\ ip_whitelist.enabled
        /\ bearer_token.api_key = "secret123"
        /\ inflight[c].request =
             Request(None, None, Some("Bearer secret123"), Some("192.168.1.50"))
        /\ Len(inflight[c].trail) = 3
        /\ inflight[c].outcome = Handled

\* C2: with the Origin Filter enabled, a request whose client address lies
\* inside at least one range of the whitelist is forwarded, and one whose
\* address lies outside every range is denied.
C2_InsideForwardedOutsideDenied ==
    \A c \in Conns :
        (/\ ip_whitelist.enabled
         /\ Saw(c, IPW)
         /\ ip_address(ClientIdentity(c)).ok)
        => IF InSomeRange(ClientIdentity(c), ip_whitelist.whitelist)
           THEN Forwarded(c, IPW)
           ELSE /\ Stopped(c, IPW)
                /\ inflight[c].state = "done"
                /\ inflight[c].outcome.kind = "response"
                /\ inflight[c].outcome.status_code = 403

\* C2 witness: the filter is enabled and has forwarded a request from
\* 10.1.2.3, which lies in 10.0.0.0/8.
C2_Witness ==
    \E c \in Conns :
        /\ ip_whitelist.enabled
        /\ ClientIdentity(c) = "10.1.2.3"
        /\ Forwarded(c, IPW)

\* The ClientIdentity of the request on c lies in UpstreamProviderRanges or
\* in LoopbackRanges.
ExemptOrigin(c) ==
    \/ InSomeRange(ClientIdentity(c), ANTHROPIC_NETWORKS)
    \/ InSomeRange(ClientIdentity(c), LOOPBACK_NETWORKS)

\* C3: with a non-empty apiKey, the Credential Gate forwards every request
\* whose ClientIdentity is in UpstreamProviderRanges or LoopbackRanges,
\* whatever its Authorization header.
C3_ExemptOriginForwarded ==
    \A c \in Conns :
        (/\ bearer_token.api_key # ""
         /\ Saw(c, BTM)
         /\ ExemptOrigin(c))
        => Forwarded(c, BTM)

\* C3 witness: apiKey "secret123", a request from 127.0.0.1 without an
\* Authorization header, forwarded by the Credential Gate.
C3_Witness ==
    \E c \in Conns :
        /\ bearer_token.api_key = "secret123"
        /\ inflight[c].request = Request(None, None, None, Some("127.0.0.1"))
        /\ Forwarded(c, BTM)

\* The header text starts with the seven characters "Bearer ".
HasBearerPrefix(header) == Len(header) >= 7 /\ SubSeq(header, 1, 7) = "Bearer "

\* C4: with a non-empty apiKey and a non-exempt ClientIdentity, a request
\* whose Authorization header is absent or does not start with "Bearer " gets
\* 401 with body {"error": "Missing or invalid Authorization header"} and the
\* header WWW-Authenticate: Bearer, and does not reach the handler.
C4_MissingHeaderIs401 ==
    \A c \in Conns :
        (/\ bearer_token.api_key # ""
         /\ Saw(c, BTM)
         /\ ~ExemptOrigin(c)
         /\ ~HasBearerPrefix(Authorization(c)))
        => /\ inflight[c].state = "done"
           /\ inflight[c].outcome.kind = "response"
           /\ inflight[c].outcome.status_code = 401
           /\ inflight[c].outcome.content =
                <<"error", "Missing or invalid Authorization header">>
           /\ <<"WWW-Authenticate", "Bearer">> \in inflight[c].outcome.headers
           /\ ~Saw(c, "app")

\* C4 witness: apiKey "secret123", a LAN request without an Authorization
\* header, answered by the Credential Gate.
C4_Witness ==
    \E c \in Conns :
        /\ bearer_token.api_key = "secret123"
        /\ inflight[c].request = Request(None, None, None, Some("192.168.1.50"))
        /\ Stopped(c, BTM)

\* C5 (as claimed): with a non-empty apiKey and a non-exempt ClientIdentity, a
\* request with header "Bearer <token>" is forwarded when the token equals
\* apiKey, and is answered 403 {"error": "Invalid API key"} for every other
\* token, without reaching the handler.
C5_TokenMatchesOr403 ==
    \A c \in Conns :
        (/\ bearer_token.api_key # ""
         /\ Saw(c, BTM)
         /\ ~ExemptOrigin(c)
         /\ HasBearerPrefix(Authorization(c)))
        => IF SubSeq(Authorization(c), 8, Len(Authorization(c)))
                = bearer_token.api_key
           THEN Forwarded(c, BTM)
           ELSE /\ inflight[c].state = "done"
                /\ inflight[c].outcome.kind = "response"
                /\ inflight[c].outcome.status_code = 403
                /\ inflight[c].outcome.content = <<"error", "Invalid API key">>
                /\ ~Saw(c, "app")

\* C6: when the Origin Filter denies a request it answers 403 with body
\* {"error": "Access denied"}, and neither the Credential Gate nor the
\* handler sees that request.
C6_DenialIs403AndShortCircuits ==
    \A c \in Conns :
        Stopped(c, IPW)
        => /\ inflight[c].state = "done"
           /\ inflight[c].outcome.kind = "response"
           /\ inflight[c].outcome.status_code = 403
           /\ inflight[c].outcome.content = <<"error", "Access denied">>
           /\ ~Saw(c, BTM)
           /\ ~Saw(c, "app")
           /\ Len(inflight[c].trail) = 1

\* C6 witness: the enabled filter has denied a request from 203.0.113.5, a
\* public address outside every range of the whitelist.
C6_Witness ==
    \E c \in Conns :
        /\ ip_whitelist.enabled
        /\ ClientIdentity(c) = "203.0.113.5"
        /\ Stopped(c, IPW)

\* C7: with the Origin Filter enabled, a request whose ClientIdentity is not
\* a parseable IP address is denied with 403; the filter does not raise.
C7_UnparseableDenied ==
    \A c \in Conns :
        (/\ ip_whitelist.enabled
         /\ Saw(c, IPW)
         /\ ~ip_address(ClientIdentity(c)).ok)
        => /\ Stopped(c, IPW)
           /\ inflight[c].outcome.kind = "response"
           /\ inflight[c].outcome.status_code = 403
           /\ inflight[c].outcome.content = <<"error", "Access denied">>

\* C7 witness: X-Forwarded-For ", 10.1.2.3" has an empty first entry; the
\* enabled filter has denied the request.
C7_Witness ==
    \E c \in Conns :
        /\ ip_whitelist.enabled
        /\ inflight[c].request.headers.x_forwarded_for = Some(", 10.1.2.3")
        /\ ClientIdentity(c) = ""
        /\ Stopped(c, IPW)

\* C8: with the Origin Filter disabled, every request is forwarded to the
\* next stage, whatever its address or headers.
C8_DisabledFilterForwardsAll ==
    \A c \in Conns :
        (~ip_whitelist.enabled /\ Saw(c, IPW)) => Forwarded(c, IPW)

\* C8 witness: the disabled filter has forwarded a request whose
\* ClientIdentity, "not-an-ip", is no address at all.
C8_Witness ==
    \E c \in Conns :
        /\ ~ip_whitelist.enabled
        /\ ClientIdentity(c) = "not-an-ip"
        /\ Forwarded(c, IPW)

\* C9: with an empty apiKey the Credential Gate forwards every request,
\* whatever its client address and Authorization header.
C9_EmptyKeyForwardsAll ==
    \A c \in Conns :
        (bearer_token.api_key = "" /\ Saw(c, BTM)) => Forwarded(c, BTM)

\* C9 witness: no apiKey, a request from the public address 8.8.8.8 with a
\* wrong bearer token, forwarded by the Credential Gate.
C9_Witness ==
    \E c \in Conns :
        /\ bearer_token.api_key = ""
        /\ inflight[c].request =
             Request(None, None, Some("Bearer wrong"), Some("8.8.8.8"))
        /\ Forwarded(c, BTM)
\* t is s without its leading and trailing blanks: s reads blanks, t, blanks,
\* and t neither starts nor ends with a blank.
IsTrimOf(t, s) ==
    \E i \in 1..(Len(s) + 1) :
        \E j \in (i - 1)..Len(s) :
            /\ t = SubSeq(s, i, j)
            /\ \A k \in 1..(i - 1) : SubSeq(s, k, k) \in {" ", "\t"}
            /\ \A k \in (j + 1)..Len(s) : SubSeq(s, k, k) \in {" ", "\t"}
            /\ j >= i => /\ SubSeq(s, i, i) \notin {" ", "\t"}
                         /\ SubSeq(s, j, j) \notin {" ", "\t"}

\* e is the first comma-separated entry of s: the text before the first comma,
\* or all of s when it holds no comma.
IsFirstEntry(e, s) ==
    \E k \in 0..Len(s) :
        /\ e = SubSeq(s, 1, k)
        /\ \A i \in 1..k : SubSeq(s, i, i) # ","
        /\ k < Len(s) => SubSeq(s, k + 1, k + 1) = ","

\* The header is there and holds at least one character.
NonEmpty(header) == header.present /\ header.value # ""

\* id is what the priority order CF-Connecting-IP, X-Forwarded-For, transport
\* peer, "0.0.0.0" gives for the request.
ResolvesTo(request, id) ==
    IF NonEmpty(request.headers.cf_connecting_ip)
    THEN IsTrimOf(id, request.headers.cf_connecting_ip.value)
    ELSE IF NonEmpty(request.headers.x_forwarded_for)
    THEN \E k \in 0..Len(request.headers.x_forwarded_for.value) :
            /\ IsFirstEntry(SubSeq(request.headers.x_forwarded_for.value, 1, k),
                            request.headers.x_forwarded_for.value)
            /\ IsTrimOf(id, SubSeq(request.headers.x_forwarded_for.value, 1, k))
    ELSE IF request.client.present THEN id = request.client.value
    ELSE id = "0.0.0.0"

\* C11: the ClientIdentity a stage works with is the trimmed CF-Connecting-IP
\* header when that header is non-empty; else the trimmed first entry of a
\* non-empty X-Forwarded-For header; else the transport peer's host; else
\* "0.0.0.0". A source is used only when every source before it is missing.
C11_ClientIdentityPriority ==
    \A c \in Conns :
        (Saw(c, IPW) \/ Saw(c, BTM))
        => ResolvesTo(inflight[c].request, ClientIdentity(c))

\* C11 witness: CF-Connecting-IP names the public 8.8.8.8 while both
\* X-Forwarded-For and the peer name the LAN address 10.1.2.3; the enabled
\* filter worked with 8.8.8.8 and denied the request.
C11_Witness ==
    \E c \in Conns :
        /\ ip_whitelist.enabled
        /\ inflight[c].request =
             Request(Some("8.8.8.8"), Some("10.1.2.3"), None, Some("10.1.2.3"))
        /\ ClientIdentity(c) = "8.8.8.8"
        /\ Stopped(c, IPW)
\* The positions that bound the comma-separated fields of s: before its first
\* character, at each comma, past its last character.
FieldBounds(s) ==
    {0, Len(s) + 1} \cup {i \in 1..Len(s) : SubSeq(s, i, i) = ","}

\* The positions strictly between bounds a and b that hold no blank.
Inked(s, a, b) ==
    {k \in (a + 1)..(b - 1) : SubSeq(s, k, k) \notin {" ", "\t"}}

\* The text of s from the least to the greatest of the positions ks.
Spanned(s, ks) ==
    SubSeq(s, CHOOSE k \in ks : \A m \in ks : k <= m,
              CHOOSE k \in ks : \A m \in ks : k >= m)

\* The entries of s between neighbouring bounds, each without the blanks
\* around it, the entries that are empty or all blanks left out.
EntriesBetween(s, bounds) ==
    {Spanned(s, ks) :
        ks \in {Inked(s, g[1], g[2]) :
                  g \in {h \in bounds \X bounds :
                           /\ h[1] < h[2]
                           /\ \A x \in bounds : ~(h[1] < x /\ x < h[2])}}
               \ {{}}}

\* The comma-separated entries of s, trimmed, empty ones ignored.
EntriesOf(s) == EntriesBetween(s, FieldBounds(s))

\* The ranges that the texts of a list give, a text that is no range left out.
RangesOfList(cidrs) ==
    {n \in {ip_network(cidrs[i]) : i \in 1..Len(cidrs)} : n.ok}

\* The ranges that a set of texts gives.
RangesOfTexts(texts) == {n \in {ip_network(x) : x \in texts} : n.ok}

\* What C12 says of the whitelist and of the three built-in lists, as a
\* predicate of one state.
C12_AtStart ==
    /\ ip_whitelist.enabled =>
          {ip_whitelist.whitelist[i] : i \in 1..Len(ip_whitelist.whitelist)}
            = RangesOfList(ANTHROPIC_CIDRS) \cup RangesOfList(LOOPBACK_CIDRS)
                \cup RangesOfList(LAN_CIDRS)
                \cup RangesOfTexts(EntriesOf(get(environ.ALLOWED_IPS, "")))
    /\ cidr_lists.ANTHROPIC_CIDRS = ANTHROPIC_CIDRS
    /\ cidr_lists.LOOPBACK_CIDRS = LOOPBACK_CIDRS
    /\ cidr_lists.LAN_CIDRS = LAN_CIDRS

\* C12: the whitelist of an enabled Origin Filter holds exactly the ranges of
\* ANTHROPIC_CIDRS, LOOPBACK_CIDRS and LAN_CIDRS and of the comma-separated
\* entries of ALLOWED_IPS (trimmed, empty ones ignored), and the three
\* built-in lists are as their literals wrote them, built whitelist or not:
\* so it is once the process has started, and no step changes the
\* environment, the lists or the filter.
C12_WhitelistIsUnionListsIntact ==
    /\ C12_AtStart
    /\ [][UNCHANGED <<environ, cidr_lists, ip_whitelist>>]_vars

\* C12 witness: the filter is enabled and ALLOWED_IPS names two ranges among
\* an unparseable and an empty entry; the whitelist holds the eleven built-in
\* ranges and the two extra ones, 203.0.113.0/24 among them, and the filter
\* has forwarded a request from 198.51.100.42, which only the other extra
\* range admits.
C12_Witness ==
    /\ ip_whitelist.enabled
    /\ environ.ALLOWED_IPS = Some("203.0.113.0/24, bogus,,198.51.100.42/32 ")
    /\ Len(ip_whitelist.whitelist) = 13
    /\ \E i \in 1..Len(ip_whitelist.whitelist) :
          /\ ip_whitelist.whitelist[i].parts = <<203, 0, 113, 0>>
          /\ ip_whitelist.whitelist[i].prefixlen = 24
    /\ Len(cidr_lists.ANTHROPIC_CIDRS) = 6
    /\ \E c \in Conns :
          /\ ClientIdentity(c) = "198.51.100.42"
          /\ Forwarded(c, IPW)
\* Every text the process parses as a range at its start: the built-in lists
\* and, with the filter enabled, the entries of ALLOWED_IPS.
ParsedTexts ==
    {cidr_lists.ANTHROPIC_CIDRS[i] : i \in 1..Len(cidr_lists.ANTHROPIC_CIDRS)}
        \cup {cidr_lists.LOOPBACK_CIDRS[i] :
                i \in 1..Len(cidr_lists.LOOPBACK_CIDRS)}
        \cup (IF ip_whitelist.enabled
              THEN {cidr_lists.LAN_CIDRS[i] : i \in 1..Len(cidr_lists.LAN_CIDRS)}
                       \cup EntriesOf(get(environ.ALLOWED_IPS, ""))
              ELSE {})

\* The elements of a sequence.
Elements(seq) == {seq[i] : i \in 1..Len(seq)}

\* The text x, which parses as `network` says, was settled as C13 wants:
\* kept in `kept` and not logged when it is a range, logged otherwise.
SettledAs(x, network, kept, logged) ==
    IF network.ok THEN network \in kept /\ x \notin logged
    ELSE x \in logged

\* Every text of `texts` was settled against the networks kept and the
\* texts logged.
AllSettled(texts, kept, logged) ==
    \A x \in texts : SettledAs(x, ip_network(x), kept, logged)

\* What C13 says of the lists built at the start, as a predicate of one state.
C13_AtStart ==
    /\ AllSettled(Elements(cidr_lists.ANTHROPIC_CIDRS),
                  Elements(ANTHROPIC_NETWORKS), Elements(invalid_cidrs))
    /\ AllSettled(Elements(cidr_lists.LOOPBACK_CIDRS),
                  Elements(LOOPBACK_NETWORKS), Elements(invalid_cidrs))
    /\ ip_whitelist.enabled =>
          AllSettled(ParsedTexts, Elements(ip_whitelist.whitelist),
                     Elements(invalid_cidrs))
    /\ Elements(invalid_cidrs) \subseteq ParsedTexts

\* The Origin Filter, which works with the parsed lists, has raised on no
\* request.
NoRaiseInFilter ==
    \A c \in Conns :
        \A i \in 1..Len(inflight[c].trail) :
            inflight[c].trail[i] # [cls |-> IPW, kind |-> "raise"]

\* C13: a range text that fails to parse is dropped and logged; the network
\* lists are still built and every well-formed entry of the same list is in
\* them once the process has started; no step changes the lists, the
\* networks or the log afterwards, and the Origin Filter raises on no request.
C13_MalformedCidrDropped ==
    /\ C13_AtStart
    /\ [][UNCHANGED <<environ, cidr_lists, invalid_cidrs, ANTHROPIC_NETWORKS,
                      LOOPBACK_NETWORKS, ip_whitelist>>]_vars
    /\ []NoRaiseInFilter

\* C13 witness: ALLOWED_IPS holds the entry "bogus" between two well-formed
\* ones; it was logged and dropped, the entry after it is in the whitelist,
\* and the filter has since forwarded a request from that entry's address.
C13_Witness ==
    /\ ip_whitelist.enabled
    /\ invalid_cidrs = <<"bogus">>
    /\ \E i \in 1..Len(ip_whitelist.whitelist) :
          /\ ip_whitelist.whitelist[i].parts = <<198, 51, 100, 42>>
          /\ ip_whitelist.whitelist[i].prefixlen = 32
    /\ \E c \in Conns :
          /\ inflight[c].request.client = Some("198.51.100.42")
          /\ Forwarded(c, IPW)
\* C14: no step of request processing, whether it forwards or rejects,
\* changes the Origin Filter's enabled flag or whitelist, the Credential
\* Gate's apiKey or auth_enabled flag, or the module's ANTHROPIC_NETWORKS and
\* LOOPBACK_NETWORKS.
C14_ConfigurationUnchanged ==
    [][/\ ip_whitelist'.enabled = ip_whitelist.enabled
       /\ ip_whitelist'.whitelist = ip_whitelist.whitelist
       /\ bearer_token'.api_key = bearer_token.api_key
       /\ bearer_token'.auth_enabled = bearer_token.auth_enabled
       /\ ANTHROPIC_NETWORKS' = ANTHROPIC_NETWORKS
       /\ LOOPBACK_NETWORKS' = LOOPBACK_NETWORKS]_vars

\* C14 witness: a request has just been rejected with 403 "Invalid API key"
\* and the two stages and the two network lists are as the start built them:
\* filter enabled with the eleven built-in ranges, key "k1", six upstream and
\* two loopback networks.
C14_Witness ==
    \E c \in Conns :
        /\ inflight[c].outcome = InvalidAPIKey
        /\ environ.ALLOWED_IPS = None
        /\ ip_whitelist.enabled
        /\ Len(ip_whitelist.whitelist) = 11
        /\ bearer_token = [api_key |-> "k1", auth_enabled |-> TRUE]
        /\ Len(ANTHROPIC_NETWORKS) = 6
        /\ Len(LOOPBACK_NETWORKS) = 2
\* What the stack built under env answers to request r when no other request
\* is in flight: the filter's answer unless it forwards, then the gate's
\* answer unless it forwards, then the handler's.
AfterGate(outcome) == IF outcome = CallNext THEN Handled ELSE outcome

AfterFilter(outcome, env, r) ==
    IF outcome # CallNext THEN outcome
    ELSE AfterGate(BearerToken_dispatch(BearerTokenMiddleware(API_KEY(env)), r,
                                        _parse_networks(ANTHROPIC_CIDRS),
                                        _parse_networks(LOOPBACK_CIDRS)))

AloneOutcome(env, r) ==
    AfterFilter(
        IPWhitelist_dispatch(
            IPWhitelistMiddleware(IP_WHITELIST_ENABLED(env), env), r),
        env, r)

\* C15: whatever else is in flight and however the stages of the requests
\* interleave, a request that has its answer has the answer it would get from
\* the same process were it the only request.
C15_OutcomeAsIfAlone ==
    \A c \in Conns :
        inflight[c].state = "done"
        => inflight[c].outcome = AloneOutcome(environ, inflight[c].request)

\* C15 witness: two requests in flight at once; the first connection holds a
\* LAN request without a header that the filter forwarded and the gate has not
\* yet seen, while the second, received with the key, already has the
\* handler's answer.
C15_Witness ==
    /\ bearer_token.api_key = "secret123"
    /\ ip_whitelist.enabled
    /\ inflight[1].request = Request(None, None, None, Some("192.168.1.50"))
    /\ inflight[1].state = "active"
    /\ Forwarded(1, IPW)
    /\ ~Saw(1, BTM)
    /\ inflight[2].request =
         Request(None, None, Some("Bearer secret123"), Some("192.168.1.50"))
    /\ inflight[2].outcome = Handled
\* C16 (as claimed): whatever the request's headers and peer, a stage that
\* has run on it either forwarded it or answered 403 "Access denied" (the
\* Origin Filter), 401 "Missing or invalid Authorization header" or 403
\* "Invalid API key" (the Credential Gate); no stage ends in an exception.
C16_OnlyTheFourOutcomes ==
    \A c \in Conns :
        /\ Stopped(c, IPW) =>
              /\ inflight[c].outcome.kind = "response"
              /\ inflight[c].outcome.status_code = 403
              /\ inflight[c].outcome.content = <<"error", "Access denied">>
        /\ Stopped(c, BTM) =>
              /\ inflight[c].outcome.kind = "response"
              /\ \/ /\ inflight[c].outcome.status_code = 401
                    /\ inflight[c].outcome.content =
                         <<"error", "Missing or invalid Authorization header">>
                 \/ /\ inflight[c].outcome.status_code = 403
                    /\ inflight[c].outcome.content =
                         <<"error", "Invalid API key">>
\* The address is an IPv4-mapped IPv6 address, ::ffff:a.b.c.d.
IsIPv4Mapped(addr) ==
    /\ addr.ok
    /\ addr.version = 6
    /\ SubSeq(addr.parts, 1, 6) = <<0, 0, 0, 0, 0, 65535>>

\* The IPv4 address a.b.c.d that an IPv4-mapped address embeds.
EmbeddedIPv4(addr) ==
    [ok |-> TRUE, version |-> 4,
     parts |-> <<addr.parts[7] \div 256, addr.parts[7] % 256,
                 addr.parts[8] \div 256, addr.parts[8] % 256>>]

\* C17 (as claimed): the helper classifies ::1 inside LoopbackRanges, so the
\* Origin Filter and the Credential Gate forward a request from ::1; and it
\* classifies an IPv4-mapped IPv6 address inside an IPv4 range that holds the
\* embedded IPv4 address, so the enabled Origin Filter forwards a request
\* from such an address.
C17_LoopbackAndMappedClassified ==
    \A c \in Conns :
        /\ (ClientIdentity(c) = "::1" /\ Saw(c, IPW) /\ ip_whitelist.enabled)
              => Forwarded(c, IPW)
        /\ (ClientIdentity(c) = "::1" /\ Saw(c, BTM)) => Forwarded(c, BTM)
        /\ (/\ ip_whitelist.enabled
            /\ Saw(c, IPW)
            /\ IsIPv4Mapped(ip_address(ClientIdentity(c)))
            /\ \E i \in 1..Len(ip_whitelist.whitelist) :
                  InRange(EmbeddedIPv4(ip_address(ClientIdentity(c))),
                          ip_whitelist.whitelist[i]))
           => Forwarded(c, IPW)
\* Character ch is the lower-case letter l or its capital.
IsLetter(ch, l) ==
    \/ ch = l
    \/ <<ch, l>> \in {<<"T", "t">>, <<"R", "r">>, <<"U", "u">>, <<"E", "e">>,
                     <<"Y", "y">>, <<"S", "s">>}

\* Text s spells the lower-case word w, in any mix of cases.
Spells(s, w) ==
    /\ Len(s) = Len(w)
    /\ \A i \in 1..Len(w) : IsLetter(SubSeq(s, i, i), SubSeq(w, i, i))

\* C18 (as claimed): the Origin Filter is enabled when IP_WHITELIST_ENABLED is
\* "true", "1" or "yes" and disabled for every other value and when the
\* variable is unset.
C18_EnabledOnlyByThreeWords ==
    ip_whitelist.enabled
        <=> /\ environ.IP_WHITELIST_ENABLED.present
            /\ environ.IP_WHITELIST_ENABLED.value \in {"true", "1", "yes"}

\* C18 (amended): the Origin Filter is enabled when IP_WHITELIST_ENABLED is
\* unset, or is "1", or spells "true" or "yes" in any mix of upper and lower
\* case; it is disabled for every other value, values with blanks around one
\* of the words included.
C18_EnabledByWordsIgnoringCaseOrUnset ==
    ip_whitelist.enabled
        <=> \/ ~environ.IP_WHITELIST_ENABLED.present
            \/ environ.IP_WHITELIST_ENABLED.value = "1"
            \/ Spells(environ.IP_WHITELIST_ENABLED.value, "true")
            \/ Spells(environ.IP_WHITELIST_ENABLED.value, "yes")

\* C18 witness: IP_WHITELIST_ENABLED is "Yes"; the filter is enabled and has
\* denied a request from the public peer 8.8.8.8.
C18_Witness ==
    \E c \in Conns :
        /\ environ.IP_WHITELIST_ENABLED = Some("Yes")
        /\ ip_whitelist.enabled
        /\ inflight[c].request.client = Some("8.8.8.8")
        /\ inflight[c].outcome = AccessDenied
\* The request on c carries exactly the header "Bearer <apiKey>".
HasValidCredential(c) ==
    /\ inflight[c].request.headers.authorization.present
    /\ inflight[c].request.headers.authorization.value
         = "Bearer " \o bearer_token.api_key

\* C19: with a non-empty apiKey, and whether the Origin Filter is enabled or
\* disabled, the Credential Gate forwards a request whose ClientIdentity is a
\* loopback address whatever its credential, and stops a request whose
\* ClientIdentity is a LAN address and that carries no valid credential
\* before it reaches the handler.
C19_ExemptionIgnoresFilter ==
    \A c \in Conns :
        (bearer_token.api_key # "" /\ Saw(c, BTM))
        => /\ InSomeRange(ClientIdentity(c), LOOPBACK_NETWORKS)
                => Forwarded(c, BTM)
           /\ (/\ ~HasValidCredential(c)
               /\ InSomeRange(ClientIdentity(c), _parse_networks(LAN_CIDRS)))
                => (Stopped(c, BTM) /\ ~Saw(c, "app"))

\* C19 witness: the Origin Filter is disabled and a key is set; a request
\* from 127.0.0.1 without an Authorization header has reached the handler.
C19_Witness ==
    \E c \in Conns :
        /\ ~ip_whitelist.enabled
        /\ bearer_token.api_key = "secret123"
        /\ inflight[c].request = Request(None, None, None, Some("127.0.0.1"))
        /\ Forwarded(c, BTM)
        /\ inflight[c].outcome = Handled

\* The rows `new` are the rows `old` after an update by row_id that stayed in
\* its frame: as many rows, in the same order; a row with another row_id is
\* as it was; a row with the row_id has the given value in every given
\* column, the stamp `now` in updated_at, and its old value in every other
\* column.
FrameKept(old, new, row_id, args, now) ==
    /\ Len(new) = Len(old)
    /\ \A i \in 1..Len(old) :
          IF old[i].row_id # row_id THEN new[i] = old[i]
          ELSE /\ DOMAIN new[i] = DOMAIN old[i]
               /\ \A col \in DOMAIN old[i] :
                     new[i][col] =
                         IF col \in DOMAIN args /\ args[col].present
                         THEN args[col].value
                         ELSE IF col = "updated_at" THEN now
                         ELSE old[i][col]

\* The worker w is about to write its update.
Writing(w) == tool_calls[w].pc = "update"

\* The worker w has returned the dict of a successful update.
Succeeded(w) ==
    tool_calls[w].pc = "returned" /\ tool_calls[w].result.status = "ok"

\* The row has the given value in every column the call gave.
HasGiven(row, args) ==
    \A name \in DOMAIN args : args[name].present => row[name] = args[name].value

\* C20: for each of the five tables, an update by row_id changes only the
\* given (non-null) fields and updated_at, and only on the rows that carry
\* the row_id: a table changes in no other way than by the write of an update
\* call on that table, which leaves every other row, and every field that was
\* not given (row_id and created_at among them), as they were; the call then
\* returns "ok" with a row that carries the row_id and the given values.
C20_UpdateChangesOnlyGivenFields ==
    /\ [][\A table_name \in TableNames :
            tables'[table_name] # tables[table_name] =>
                \E w \in DOMAIN tool_calls :
                    /\ Writing(w)
                    /\ tool_calls[w].table_name = table_name
                    /\ tool_calls'[w].pc = "reread"
                    /\ FrameKept(tables[table_name], tables'[table_name],
                                 tool_calls[w].row_id, tool_calls[w].args,
                                 _now_iso(clock))]_vars
    /\ [](\A w \in DOMAIN tool_calls :
            Succeeded(w) =>
                /\ tool_calls[w].result.updated.row_id = tool_calls[w].row_id
                /\ HasGiven(tool_calls[w].result.updated, tool_calls[w].args))

\* An update of r1 that gave some parameters and left others out has
\* succeeded a second or more after the rows were written: the rows with r1
\* carry a new stamp, and a row with another row_id is in the table.
C20_Witness ==
    \E w \in DOMAIN tool_calls :
        /\ Succeeded(w)
        /\ \E given, left \in DOMAIN tool_calls[w].args :
              /\ tool_calls[w].args[given].present
              /\ ~tool_calls[w].args[left].present
        /\ \E i, j \in 1..Len(tables[tool_calls[w].table_name]) :
              /\ tables[tool_calls[w].table_name][i].row_id = tool_calls[w].row_id
              /\ tables[tool_calls[w].table_name][i].updated_at
                    # tables[tool_calls[w].table_name][i].created_at
              /\ tables[tool_calls[w].table_name][j].row_id # tool_calls[w].row_id
              /\ tables[tool_calls[w].table_name][j].updated_at
                    = tables[tool_calls[w].table_name][j].created_at

\* The worker w is at the existence check of an update or a delete.
Checking(w) == tool_calls[w].pc \in {"check", "delete_check"}

\* No row of the table that w's call names carries the row_id it names.
Unmatched(w) ==
    \A i \in 1..Len(tables[tool_calls[w].table_name]) :
        tables[tool_calls[w].table_name][i].row_id # tool_calls[w].row_id

\* How many of the rows before the i-th carry the row_id.
MatchesBefore(rows, row_id, i) ==
    Cardinality({j \in 1..(i - 1) : rows[j].row_id = row_id})

\* The rows `new` are the rows `old` less exactly the rows with the row_id:
\* none with the row_id is left, and every other row is still there, in the
\* same order.
RemovedExactly(old, new, row_id) ==
    /\ Len(new) = Len(old) - MatchesBefore(old, row_id, Len(old) + 1)
    /\ \A i \in 1..Len(new) : new[i].row_id # row_id
    /\ \A i \in 1..Len(old) :
          old[i].row_id # row_id =>
              new[i - MatchesBefore(old, row_id, i)] = old[i]

\* The i-th answer says that a delete found and removed rows.
DeleteDone(i) ==
    responses[i].tool = "delete" /\ responses[i].result.status = "ok"

\* C21: for each of the five tables, an update or delete whose row_id matches
\* no row returns the {"status": "error"} result and leaves the tables as
\* they are; a delete whose row_id matches removes exactly the rows with that
\* row_id and no others, in no other table either; and a call that follows
\* such a delete with the same table and row_id gets the error result.
C21_NotFoundAndDeleteExact ==
    /\ [][\A w \in DOMAIN tool_calls :
            /\ (Checking(w) /\ Unmatched(w) /\ tool_calls'[w] # tool_calls[w])
                   => /\ tool_calls'[w].pc = "returned"
                      /\ tool_calls'[w].result
                            = NotFound(tool_calls[w].table_name,
                                       tool_calls[w].row_id)
                      /\ tables' = tables
            /\ (tool_calls[w].pc = "delete" /\ tool_calls'[w] # tool_calls[w])
                   => /\ tool_calls'[w].pc = "returned"
                      /\ tool_calls'[w].result.status = "ok"
                      /\ tool_calls'[w].result.deleted_row_id
                            = tool_calls[w].row_id
                      /\ \A table_name \in TableNames :
                            IF table_name = tool_calls[w].table_name
                            THEN RemovedExactly(tables[table_name],
                                                tables'[table_name],
                                                tool_calls[w].row_id)
                            ELSE tables'[table_name] = tables[table_name]]_vars
    /\ [](\A i, j \in 1..Len(responses) :
            (/\ i < j
             /\ DeleteDone(i)
             /\ responses[j].table_name = responses[i].table_name
             /\ responses[j].row_id = responses[i].row_id)
                => responses[j].result
                      = NotFound(responses[i].table_name, responses[i].row_id))

\* A delete of r1 removed rows and left others in the table, and the update
\* of r1 that followed got the error result.
C21_Witness ==
    /\ Len(responses) = 2
    /\ DeleteDone(1)
    /\ responses[2].tool = "update"
    /\ responses[2].table_name = responses[1].table_name
    /\ responses[2].row_id = responses[1].row_id
    /\ responses[2].result.status = "error"
    /\ Len(tables[responses[1].table_name]) > 0

\* The path lies in the vault or in the projects volume.
Confined(p) == Under(VAULT_ROOT, p) \/ Under(PROJECTS_ROOT, p)

\* The worker w answers a vault call in this step.
VaultAnswers(w) ==
    /\ tool_calls[w].pc = "idle"
    /\ tool_calls'[w].pc = "returned"
    /\ tool_calls'[w].tool \in {"vault_read", "vault_write", "vault_list"}

\* The paths that this step creates or changes.
Touched ==
    {q \in DOMAIN files' : q \notin DOMAIN files \/ files'[q] # files[q]}

\* C22: vault_read, vault_write and vault_list read, create or list only
\* paths whose resolved form is an allowed root or below one; for any other
\* path the call fails with "Access denied" and creates nothing.
C22_VaultConfined ==
    [][\A w \in DOMAIN tool_calls :
         VaultAnswers(w) =>
            /\ \A q \in Touched : Confined(q)
            /\ Confined(Resolve(files, tool_calls'[w].args.path))
                  \/ /\ tool_calls'[w].result = OutsideAllowed(tool_calls'[w].args.path)
                     /\ files' = files
            /\ "content" \in DOMAIN tool_calls'[w].result
                  => /\ Confined(Resolve(files, tool_calls'[w].args.path))
                     /\ tool_calls'[w].result.content
                           = files[Resolve(files, tool_calls'[w].args.path)].content
            /\ "entries" \in DOMAIN tool_calls'[w].result
                  => Confined(Resolve(files, tool_calls'[w].args.path))]_vars

\* The script has run migrate_table to its end on the k-th of the TABLES, in
\* this run or in an earlier one.
Migrated(k) ==
    /\ script.pc \in {"migrate", "verify", "done"}
    /\ script.run > 1 \/ k < script.i

\* C23: after migrate_table completes on a table, every row of the table has
\* a non-empty row_id and no two rows share one, whatever the table held
\* before (rows that agree on the composite key included).
C23_MigratedIdsUnique ==
    \A k \in 1..Len(TABLES) :
        Migrated(k) =>
            /\ \A i \in 1..Len(tables[TABLES[k]]) :
                  tables[TABLES[k]][i].row_id \notin {NULL, ""}
            /\ \A i, j \in 1..Len(tables[TABLES[k]]) :
                  i # j => tables[TABLES[k]][i].row_id
                              # tables[TABLES[k]][j].row_id

\* C24: the migration is idempotent: migrate_table run again on a table adds
\* no column, draws no row id and leaves every row, with the row_id the
\* first run gave it, as it is; it reports that the column was there and
\* that it backfilled nothing.
C24_SecondRunChangesNothing ==
    [][(script.pc = "migrate" /\ script.run > 1 /\ script' # script)
          => /\ tables' = tables
             /\ schema' = schema
             /\ script'.uuids = script.uuids
             /\ script'.results[script.i].had_column
             /\ script'.results[script.i].rows_backfilled = 0]_vars

\* The second run has gone over a table whose rows the first run backfilled.
C24_Witness ==
    /\ script.pc = "done"
    /\ script.run = 2
    /\ \E k \in 1..Len(TABLES) :
          /\ Len(tables[TABLES[k]]) = 2
          /\ tables[TABLES[k]][1].row_id = NewRowId(1)
          /\ tables[TABLES[k]][2].row_id = NewRowId(2)

\* The seven columns of a memory besides row_id.
SevenColumns ==
    {"content", "memory_type", "projects", "tags", "source", "created_at",
     "updated_at"}

\* The values of a row in the seven columns.
Content(row) == [col \in SevenColumns |-> row[col]]

\* The contents of the rows of memory.memories, in order; none when the
\* table does not exist.
InTable ==
    IF "memory.memories" \in DOMAIN tables
    THEN [i \in 1..Len(tables["memory.memories"]) |->
             Content(tables["memory.memories"][i])]
    ELSE <<>>

\* The contents that the backup file holds, in order; none without a file.
InBackup ==
    IF backup.exists
    THEN [i \in 1..Len(backup.entries) |-> Content(backup.entries[i])]
    ELSE <<>>

\* C25: fix_memories_migration exports, writes the backup, drops,
\* recreates and re-imports, in this order. The table is dropped only when
\* the backup file holds all its rows; from the export on, whatever step the
\* run has reached or stopped after, each original row's content is in the
\* table or in the backup; on completion the table has as many rows as
\* before, with the same values in the seven columns besides row_id and
\* with non-empty row_ids that differ from one another.
C25_BackupBeforeDropAndSameRows ==
    /\ [][/\ (script.pc = "export" /\ script' # script)
               => /\ script'.pc = "backup"
                  /\ [i \in 1..Len(script'.exported) |->
                         Content(script'.exported[i])] = InTable
                  /\ UNCHANGED <<tables, backup>>
          /\ ("memory.memories" \in DOMAIN tables
                 /\ "memory.memories" \notin DOMAIN tables')
               => /\ script.pc = "drop"
                  /\ InBackup = InTable
          /\ (script.pc = "create" /\ script' # script)
               => /\ script'.pc = "import"
                  /\ tables'["memory.memories"] = <<>>]_vars
    /\ [](script.pc # "export" =>
            \A i \in 1..Len(script.exported) :
                \/ \E j \in 1..Len(InTable) :
                      InTable[j] = Content(script.exported[i])
                \/ \E j \in 1..Len(InBackup) :
                      InBackup[j] = Content(script.exported[i]))
    /\ [](script.pc = "done" =>
            /\ script.ok
            /\ InTable = [i \in 1..Len(script.exported) |->
                             Content(script.exported[i])]
            /\ InBackup = InTable
            /\ \A i \in 1..Len(tables["memory.memories"]) :
                  tables["memory.memories"][i].row_id \notin {NULL, ""}
            /\ \A i, j \in 1..Len(tables["memory.memories"]) :
                  i # j => tables["memory.memories"][i].row_id
                              # tables["memory.memories"][j].row_id)

\* The run is complete on a table of two memories of the same type written
\* in the same second: they are back, each with a row_id of its own.
C25_Witness ==
    /\ script.pc = "done"
    /\ Len(InTable) = 2
    /\ InTable[1].memory_type = InTable[2].memory_type
    /\ InTable[1].created_at = InTable[2].created_at
    /\ tables["memory.memories"][1].row_id # tables["memory.memories"][2].row_id
    /\ backup.exists

\* The worker w has answered a list call that named a project.
ListedByProject(w) ==
    /\ tool_calls[w].pc = "returned"
    /\ tool_calls[w].tool = "list"
    /\ tool_calls[w].args.project.present
    /\ tool_calls[w].args.project.value # ""

\* The row matches every filter that the call of w gives.
MatchesFilters(w, row) ==
    /\ \E i \in 1..Len(row.projects) :
          row.projects[i] = tool_calls[w].args.project.value
    /\ (tool_calls[w].args.type.present /\ tool_calls[w].args.type.value # "")
          => row[TypeColumn(tool_calls[w].table_name)]
                = tool_calls[w].args.type.value

\* The rows of the table that match every filter of w's call.
AllMatching(w) ==
    SelectSeq(tables[tool_calls[w].table_name],
              LAMBDA row : MatchesFilters(w, row))

\* C26: memory_list and document_list with a project filter return the
\* first `limit` entries of the list of all rows that match the type filter
\* and contain the project, ordered newest first by created_at.
C26_ListNewestMatching ==
    \A w \in DOMAIN tool_calls :
        ListedByProject(w) =>
            \E order \in NewestFirst(AllMatching(w)) :
                tool_calls[w].result.rows
                    = Limit([i \in 1..Len(order) |-> AllMatching(w)[order[i]]],
                            tool_calls[w].args.limit)

\* C27: with the Origin Filter enabled and a non-empty apiKey, every request
\* that reaches the handler has a ClientIdentity inside the AccessPolicy,
\* and that same ClientIdentity is in UpstreamProviderRanges or
\* LoopbackRanges or the request carried "Bearer <apiKey>"; the request from
\* which both stages read the ClientIdentity stays the same while it is
\* served; and every exempt range is a range of the AccessPolicy, so every
\* exempt address is inside it.
C27_HandledIsAllowedAndAuthorised ==
    /\ [](\A c \in Conns :
            (ip_whitelist.enabled /\ bearer_token.api_key # "")
            => /\ Saw(c, "app")
                    => /\ InSomeRange(ClientIdentity(c), ip_whitelist.whitelist)
                       /\ ExemptOrigin(c) \/ HasValidCredential(c)
               /\ ExemptOrigin(c)
                    => InSomeRange(ClientIdentity(c), ip_whitelist.whitelist))
    /\ [](ip_whitelist.enabled =>
            Elements(ANTHROPIC_NETWORKS) \union Elements(LOOPBACK_NETWORKS)
                \subseteq Elements(ip_whitelist.whitelist))
    /\ [][\A c \in Conns :
            inflight[c].state = "active"
                => inflight'[c].request = inflight[c].request]_vars

\* C27 witness: filter enabled, key set; a request that names the LAN
\* address 10.1.2.3 in X-Forwarded-For and carries the key has reached the
\* handler.
C27_Witness ==
    \E c \in Conns :
        /\ ip_whitelist.enabled
        /\ bearer_token.api_key = "secret123"
        /\ inflight[c].request.headers.x_forwarded_for.present
        /\ ClientIdentity(c) = "10.1.2.3"
        /\ ~ExemptOrigin(c)
        /\ HasValidCredential(c)
        /\ Saw(c, "app")

\* The transport-layer peer address of the request on c lies in
\* UpstreamProviderRanges or in LoopbackRanges.
ExemptPeer(c) ==
    /\ inflight[c].request.client.present
    /\ \/ InSomeRange(inflight[c].request.client.value, ANTHROPIC_NETWORKS)
       \/ InSomeRange(inflight[c].request.client.value, LOOPBACK_NETWORKS)

\* C28: with a non-empty apiKey, a request whose peer address lies outside
\* UpstreamProviderRanges and LoopbackRanges reaches the handler only if it
\* carries "Bearer <apiKey>", whatever CF-Connecting-IP or X-Forwarded-For
\* header it supplies and whether or not the Origin Filter is enabled.
C28_NonExemptPeerNeedsCredential ==
    \A c \in Conns :
        (/\ bearer_token.api_key # ""
         /\ ~ExemptPeer(c)
         /\ Saw(c, "app"))
        => HasValidCredential(c)

\* The request with another Authorization header.
WithAuthorization(request, auth) ==
    Request(request.headers.cf_connecting_ip, request.headers.x_forwarded_for,
            auth, request.client)

\* Authorization headers of each kind: absent, malformed, wrong token,
\* token that is not ASCII, correct token.
AuthorizationKinds ==
    {None, Some("Basic c2VjcmV0"), Some("Bearer wrong"), Some("Bearer é"),
     Some("Bearer " \o bearer_token.api_key)}

\* C29: for a non-empty apiKey and a ClientIdentity in
\* UpstreamProviderRanges or LoopbackRanges, the Credential Gate forwards
\* the request, and forwards it as well with any other Authorization header
\* in place of its own; and the Origin Filter decides on a request as it
\* decides on the same request with any other Authorization header.
C29_DecisionsIgnoreAuthorization ==
    \A c \in Conns :
        /\ (bearer_token.api_key # "" /\ Saw(c, BTM) /\ ExemptOrigin(c))
              => /\ Forwarded(c, BTM)
                 /\ \A auth \in AuthorizationKinds :
                       BearerToken_dispatch(bearer_token,
                           WithAuthorization(inflight[c].request, auth),
                           ANTHROPIC_NETWORKS, LOOPBACK_NETWORKS) = CallNext
        /\ Saw(c, IPW)
              => \A auth \in AuthorizationKinds :
                    IPWhitelist_dispatch(ip_whitelist,
                        WithAuthorization(inflight[c].request, auth)).kind
                      = inflight[c].trail[1].kind

\* C29 witness: key set; a request from 127.0.0.1 with a wrong token has
\* been forwarded by the Credential Gate and has reached the handler.
C29_Witness ==
    \E c \in Conns :
        /\ bearer_token.api_key = "secret123"
        /\ ClientIdentity(c) = "127.0.0.1"
        /\ Authorization(c) = "Bearer wrong"
        /\ Forwarded(c, BTM)
        /\ Saw(c, "app")

\* C30: for any interleaving of update and delete calls on a table, each
\* call that has returned has returned a {"status": "ok"} result or the
\* {"status": "error"} not-found result, and none has failed with an
\* unhandled error.
C30_InterleavedCallsReturnResults ==
    \A w \in DOMAIN tool_calls :
        tool_calls[w].pc = "returned"
            => \/ tool_calls[w].result.status = "ok"
               \/ tool_calls[w].result
                    = NotFound(tool_calls[w].table_name, tool_calls[w].row_id)

====
